---- MODULE Spec2Model ----
(***************************************************************************)
(* Model of the foot measurement engine (class MeasurementEngine,          *)
(* measurement.js) of the RunSync foot analyzer.                            *)
(*                                                                          *)
(* Numbers.  JavaScript numbers are modelled as exact fixed-point integers: *)
(*   - a raw coordinate c of the position buffer is the integer c * 1000    *)
(*     (thousandths of a raw file unit);                                    *)
(*   - a unit multiplier m is the integer m * 10 (so 0.1 is 1);             *)
(*   - a millimetre value v is the integer v * 10000, which is what the     *)
(*     product (raw * 1000) * (m * 10) gives;                               *)
(*   - a comparison v <= a + r * 0.15 is the comparison                     *)
(*     100 * v <= 100 * a + 15 * r.                                         *)
(* NaN, the infinities and binary rounding are outside the model.           *)
(***************************************************************************)
EXTENDS Integers, Sequences, FiniteSets, TLC

\* Number of points of the point cloud a geometry is drawn from.
MaxVertices == 4

\* The number of times the analysis of both feet is started.
MaxFlows == 2

\* The number of files selected in a session of an application.
MaxLoads == 3

\* Fixed-point representation of n millimetres (or of n mm-scaled units).
Mm(n) == n * 10000

\* Fixed-point representation of n raw file units.
Raw(n) == n * 1000

Max2(a, b) == IF a >= b THEN a ELSE b

Abs(a) == IF a < 0 THEN 0 - a ELSE a

SetMin(S) == CHOOSE m \in S : \A s \in S : m <= s

SetMax(S) == CHOOSE m \in S : \A s \in S : m >= s

Range(s) == {s[i] : i \in 1..Len(s)}

(***************************************************************************)
(* Inputs: geometries and models.                                           *)
(***************************************************************************)

\* new THREE.Vector3(x, y, z)
Vector3(x, y, z) == [x |-> x, y |-> y, z |-> z]

\* A synthetic foot scan 100 (X) by 60 (Y) by 260 (Z): the two sides of the
\* ball, the top of the heel, the tip of the toe, then the instep and a
\* point overhanging the toe.
Cloud ==
  << Vector3(0, 0, 170), Vector3(100, 12, 170), Vector3(50, 60, 0),
     Vector3(50, 0, 260), Vector3(50, 60, 130), Vector3(100, 30, 270) >>

\* The units a scanner may export the same foot in, as the fixed-point value
\* of one cloud step: metres, centimetres, millimetres, and a scene unit of
\* half a millimetre.
Scales == {1, 100, 1000, 2000}

\* How the scanner exported the foot: lying along Z, as the engine assumes,
\* or standing along -Y, which the quarter turn rotation.x = -PI/2 lays down.
Poses == {"lying", "standing"}

Posed(v, pose) ==
  IF pose = "standing" THEN Vector3(v.x, 0 - v.z, v.y) ELSE v

\* The sub-sequence of the first MaxVertices cloud points selected by pick,
\* scaled by s and posed: the position buffer of a geometry, one vertex per
\* 3 floats.
PickVertices(pick, s, pose) ==
  LET sel == SelectSeq([i \in 1..MaxVertices |-> i], LAMBDA i : i \in pick)
  IN  [k \in 1..Len(sel) |->
         Posed(Vector3(Cloud[sel[k]].x * s, Cloud[sel[k]].y * s,
                       Cloud[sel[k]].z * s), pose)]

\* A geometry is null, an object without a position attribute, or a
\* BufferGeometry whose position attribute holds `position` (count is its
\* length; it may be empty).
NullGeometry == [kind |-> "null"]

NoPositionGeometry == [kind |-> "noPosition"]

BufferGeometry(vs) == [kind |-> "buffer", position |-> vs]

Geometries ==
  {NullGeometry, NoPositionGeometry}
    \cup {BufferGeometry(PickVertices(pick, s, pose)) :
            pick \in SUBSET (1..MaxVertices), s \in Scales, pose \in Poses}

\* currentModel: absent, an Object3D whose Euler rotation is
\* rotation.x = -PI/2 as the scene's auto-alignment sets it, or an object
\* without a rotation, on which makeRotationFromEuler throws.
Models == {"none", "rotXNeg90", "noRotation"}

(***************************************************************************)
(* THREE.Box3 as the engine uses it.  An empty box (no point) has size 0.   *)
(***************************************************************************)

\* new THREE.Box3().setFromPoints(points)
Box3FromPoints(points) ==
  IF Len(points) = 0
  THEN [empty |-> TRUE, min |-> Vector3(0, 0, 0), max |-> Vector3(0, 0, 0)]
  ELSE [empty |-> FALSE,
        min |-> Vector3(SetMin({p.x : p \in Range(points)}),
                        SetMin({p.y : p \in Range(points)}),
                        SetMin({p.z : p \in Range(points)})),
        max |-> Vector3(SetMax({p.x : p \in Range(points)}),
                        SetMax({p.y : p \in Range(points)}),
                        SetMax({p.z : p \in Range(points)}))]

\* bbox.getSize(new THREE.Vector3())
GetSize(bbox) ==
  IF bbox.empty
  THEN Vector3(0, 0, 0)
  ELSE Vector3(bbox.max.x - bbox.min.x, bbox.max.y - bbox.min.y,
               bbox.max.z - bbox.min.z)

\* A mutation of ApplyRotation: the model rotation is not applied.
ApplyRotationSkipped(currentModel, v) == v

\* vertex.applyMatrix4(rotationMatrix), the matrix made from the model's
\* Euler rotation, the quarter turn rotation.x = -PI/2.
ApplyRotation(currentModel, v) ==
  IF currentModel = "rotXNeg90" THEN Vector3(v.x, v.z, 0 - v.y) ELSE v

(***************************************************************************)
(* Unit detection and validation.                                           *)
(***************************************************************************)

ConfidenceHighMeter == "high (metre unit detected)"

ConfidenceMediumMeter == "medium (metre unit assumed)"

ConfidenceMediumCm == "medium (cm unit assumed)"

ConfidenceHighMm == "high (mm unit detected)"

ConfidenceLowAbnormal == "low (abnormal size)"

\* detectUnit with the millimetre band closed on the wrong side: exactly 50
\* is taken for centimetres and exactly 500 for an abnormal size.
detectUnitOpenBand(maxDim) ==
  IF maxDim < Raw(1) \div 2
  THEN [multiplier |-> 10000, unit |-> "mm", confidence |-> ConfidenceHighMeter]
  ELSE IF maxDim < Raw(5)
  THEN [multiplier |-> 10000, unit |-> "mm", confidence |-> ConfidenceMediumMeter]
  ELSE IF maxDim <= Raw(50)
  THEN [multiplier |-> 100, unit |-> "mm", confidence |-> ConfidenceMediumCm]
  ELSE IF maxDim < Raw(500)
  THEN [multiplier |-> 10, unit |-> "mm", confidence |-> ConfidenceHighMm]
  ELSE [multiplier |-> 1, unit |-> "mm", confidence |-> ConfidenceLowAbnormal]

\* detectUnit(maxDim); multiplier is in tenths.
detectUnit(maxDim) ==
  IF maxDim < Raw(1) \div 2
  THEN [multiplier |-> 10000, unit |-> "mm", confidence |-> ConfidenceHighMeter]
  ELSE IF maxDim >= Raw(1) \div 2 /\ maxDim < Raw(5)
  THEN [multiplier |-> 10000, unit |-> "mm", confidence |-> ConfidenceMediumMeter]
  ELSE IF maxDim >= Raw(5) /\ maxDim < Raw(50)
  THEN [multiplier |-> 100, unit |-> "mm", confidence |-> ConfidenceMediumCm]
  ELSE IF maxDim >= Raw(50) /\ maxDim <= Raw(500)
  THEN [multiplier |-> 10, unit |-> "mm", confidence |-> ConfidenceHighMm]
  ELSE [multiplier |-> 1, unit |-> "mm", confidence |-> ConfidenceLowAbnormal]

MIN_LENGTH == 50

MAX_LENGTH == 500

MIN_WIDTH == 20

MAX_WIDTH == 200

MIN_HEIGHT == 10

MAX_HEIGHT == 150

\* validateMeasurements accepting a triplet as soon as its length is valid.
validateMeasurementsLengthOnly(length, width, height) ==
  length >= Mm(MIN_LENGTH) /\ length <= Mm(MAX_LENGTH)

\* validateMeasurements with exclusive bounds.
validateMeasurementsExclusive(length, width, height) ==
  /\ length > Mm(MIN_LENGTH) /\ length < Mm(MAX_LENGTH)
  /\ width > Mm(MIN_WIDTH) /\ width < Mm(MAX_WIDTH)
  /\ height > Mm(MIN_HEIGHT) /\ height < Mm(MAX_HEIGHT)

\* validateMeasurements without its lower bounds.
validateMeasurementsNoLower(length, width, height) ==
  length <= Mm(MAX_LENGTH) /\ width <= Mm(MAX_WIDTH) /\ height <= Mm(MAX_HEIGHT)

\* validateMeasurements(length, width, height), on millimetre values.
validateMeasurements(length, width, height) ==
  LET validLength == length >= Mm(MIN_LENGTH) /\ length <= Mm(MAX_LENGTH)
      validWidth == width >= Mm(MIN_WIDTH) /\ width <= Mm(MAX_WIDTH)
      validHeight == height >= Mm(MIN_HEIGHT) /\ height <= Mm(MAX_HEIGHT)
  IN  validLength /\ validWidth /\ validHeight

(***************************************************************************)
(* The three landmark estimators.  Each sorts a coordinate list and reads   *)
(* its first and last element, i.e. its minimum and maximum.                *)
(***************************************************************************)

\* vertices.map(v => v.c).sort(...)[0] and [length - 1], per coordinate.
MinX(vertices) == SetMin({v.x : v \in Range(vertices)})

MaxX(vertices) == SetMax({v.x : v \in Range(vertices)})

MinY(vertices) == SetMin({v.y : v \in Range(vertices)})

MaxY(vertices) == SetMax({v.y : v \in Range(vertices)})

MinZ(vertices) == SetMin({v.z : v \in Range(vertices)})

MaxZ(vertices) == SetMax({v.z : v \in Range(vertices)})

\* measureFootLength with the sole threshold of measureFootWidth, 0.2.
measureFootLengthSole20(vertices, bbox) ==
  IF Len(vertices) = 0
  THEN GetSize(bbox).z
  ELSE LET minY == MinY(vertices)
           maxY == MaxY(vertices)
           footSoleVertices ==
             SelectSeq(vertices,
                       LAMBDA v : 100 * v.y <= 100 * minY + 20 * (maxY - minY))
       IN  IF Len(footSoleVertices) = 0
           THEN MaxZ(vertices) - MinZ(vertices)
           ELSE Abs(MaxZ(footSoleVertices) - MinZ(footSoleVertices))

\* measureFootWidth without the sole condition on the ball vertices.
measureFootWidthAnyHeight(vertices, bbox) ==
  IF Len(vertices) = 0
  THEN GetSize(bbox).x
  ELSE LET minZ == MinZ(vertices)
           footLength == MaxZ(vertices) - minZ
           ballVertices ==
             SelectSeq(vertices,
                       LAMBDA v : /\ 100 * v.z >= 100 * minZ + 60 * footLength
                                  /\ 100 * v.z <= 100 * minZ + 75 * footLength)
       IN  IF Len(ballVertices) = 0
           THEN MaxX(vertices) - MinX(vertices)
           ELSE Abs(MaxX(ballVertices) - MinX(ballVertices))

\* measureFootHeight with an instep band that ends before 0.7 of the length.
measureFootHeightOpenBand(vertices, bbox) ==
  IF Len(vertices) = 0
  THEN GetSize(bbox).y
  ELSE LET soleY == MinY(vertices)
           minZ == MinZ(vertices)
           footLength == MaxZ(vertices) - minZ
           instepVertices ==
             SelectSeq(vertices,
                       LAMBDA v : /\ 100 * v.z >= 100 * minZ + 30 * footLength
                                  /\ 100 * v.z < 100 * minZ + 70 * footLength)
       IN  IF Len(instepVertices) = 0
           THEN MaxY(vertices) - soleY
           ELSE Abs(MaxY(instepVertices) - soleY)

\* measureFootLength that returns heel minus toe, without Math.abs.
measureFootLengthHeelMinusToe(vertices, bbox) ==
  IF Len(vertices) = 0
  THEN GetSize(bbox).z
  ELSE LET minY == MinY(vertices)
           maxY == MaxY(vertices)
           footSoleVertices ==
             SelectSeq(vertices,
                       LAMBDA v : 100 * v.y <= 100 * minY + 15 * (maxY - minY))
       IN  IF Len(footSoleVertices) = 0
           THEN MaxZ(vertices) - MinZ(vertices)
           ELSE MinZ(footSoleVertices) - MaxZ(footSoleVertices)

\* measureFootLength(vertices, bbox)
measureFootLength(vertices, bbox) ==
  IF Len(vertices) = 0
  THEN GetSize(bbox).z
  ELSE LET minY == MinY(vertices)
           maxY == MaxY(vertices)
           \* v.y <= minY + (maxY - minY) * 0.15
           footSoleVertices ==
             SelectSeq(vertices,
                       LAMBDA v : 100 * v.y <= 100 * minY + 15 * (maxY - minY))
       IN  IF Len(footSoleVertices) = 0
           THEN MaxZ(vertices) - MinZ(vertices)
           ELSE Abs(MaxZ(footSoleVertices) - MinZ(footSoleVertices))

\* measureFootWidth(vertices, bbox)
measureFootWidth(vertices, bbox) ==
  IF Len(vertices) = 0
  THEN GetSize(bbox).x
  ELSE LET minZ == MinZ(vertices)
           footLength == MaxZ(vertices) - minZ
           minY == MinY(vertices)
           maxY == MaxY(vertices)
           \* ballStartZ = minZ + footLength * 0.6, ballEndZ = minZ +
           \* footLength * 0.75, footSoleThreshold = minY + (maxY - minY) * 0.2
           ballVertices ==
             SelectSeq(vertices,
                       LAMBDA v : /\ 100 * v.z >= 100 * minZ + 60 * footLength
                                  /\ 100 * v.z <= 100 * minZ + 75 * footLength
                                  /\ 100 * v.y <= 100 * minY + 20 * (maxY - minY))
       IN  IF Len(ballVertices) = 0
           THEN MaxX(vertices) - MinX(vertices)
           ELSE Abs(MaxX(ballVertices) - MinX(ballVertices))

\* measureFootHeight that reads the wrong axis of the bounding box for an
\* empty vertex list.
measureFootHeightWrongAxis(vertices, bbox) ==
  IF Len(vertices) = 0
  THEN GetSize(bbox).z
  ELSE LET soleY == MinY(vertices)
           minZ == MinZ(vertices)
           footLength == MaxZ(vertices) - minZ
           instepVertices ==
             SelectSeq(vertices,
                       LAMBDA v : /\ 100 * v.z >= 100 * minZ + 30 * footLength
                                  /\ 100 * v.z <= 100 * minZ + 70 * footLength)
       IN  IF Len(instepVertices) = 0
           THEN MaxY(vertices) - soleY
           ELSE Abs(MaxY(instepVertices) - soleY)

\* measureFootHeight(vertices, bbox)
measureFootHeight(vertices, bbox) ==
  IF Len(vertices) = 0
  THEN GetSize(bbox).y
  ELSE LET soleY == MinY(vertices)
           minZ == MinZ(vertices)
           footLength == MaxZ(vertices) - minZ
           \* instepStartZ = minZ + footLength * 0.3, instepEndZ = minZ +
           \* footLength * 0.7
           instepVertices ==
             SelectSeq(vertices,
                       LAMBDA v : /\ 100 * v.z >= 100 * minZ + 30 * footLength
                                  /\ 100 * v.z <= 100 * minZ + 70 * footLength)
       IN  IF Len(instepVertices) = 0
           THEN MaxY(vertices) - soleY
           ELSE Abs(MaxY(instepVertices) - soleY)

(***************************************************************************)
(* Ratios and classification.                                               *)
(***************************************************************************)

\* Long division: the quotient floor(r * 10^n / b) and its remainder, for
\* 0 <= r < b, one decimal digit at a time.
RECURSIVE LongDivision(_, _, _)
LongDivision(r, b, n) ==
  IF n = 0
  THEN [q |-> 0, r |-> r]
  ELSE LET d == (10 * r) \div b
           rest == LongDivision((10 * r) % b, b, n - 1)
           pow == IF n = 1 THEN 1 ELSE IF n = 2 THEN 10 ELSE 100
       IN  [q |-> d * pow + rest.q, r |-> rest.r]

\* (a / b).toFixed(n) for a >= 0, b > 0 and n <= 3, as the integer made of
\* its digits (a / b * 10^n rounded to the nearest integer, halves up).
ToFixed(a, b, n) ==
  LET pow == IF n = 0 THEN 1 ELSE IF n = 1 THEN 10 ELSE IF n = 2 THEN 100 ELSE 1000
      frac == LongDivision(a % b, b, n)
  IN  (a \div b) * pow + frac.q + (IF 2 * frac.r >= b THEN 1 ELSE 0)

\* calculateRatios(length, width, height): lengthWidth is the text of
\* (length / width).toFixed(2), heightLength the text of
\* (height / length * 100).toFixed(1) + '%', each kept as its digits;
\* 'N/A' when an operand is falsy.
calculateRatios(length, width, height) ==
  [lengthWidth |->
     IF length # 0 /\ width # 0
     THEN [text |-> "fixed", digits |-> ToFixed(length, width, 2)]
     ELSE [text |-> "N/A", digits |-> 0],
   heightLength |->
     IF height # 0 /\ length # 0
     THEN [text |-> "fixed%", digits |-> ToFixed(height, length, 3)]
     ELSE [text |-> "N/A", digits |-> 0]]

\* a / b > num / den for b # 0 and den > 0: the quotient of the code's
\* division compared with a decimal literal, without dividing.
QuotientAbove(a, b, num, den) ==
  IF b > 0 THEN den * a > num * b ELSE den * a < num * b

\* a / b < num / den for b # 0 and den > 0.
QuotientBelow(a, b, num, den) ==
  IF b > 0 THEN den * a < num * b ELSE den * a > num * b

FootTypeDescription(footType) ==
  IF footType = "Long Foot Type"
  THEN "Elongated foot shape with longer toes and narrow profile"
  ELSE IF footType = "Wide Foot Type"
  THEN "Broader foot shape with wider forefoot area"
  ELSE "Well-balanced foot proportions with standard dimensions"

AnalysisPending ==
  [footType |-> "Analysis Pending", archType |-> "Analysis Pending",
   description |-> "Insufficient data for comprehensive analysis"]

\* analyzeFootType with the boundary ratios counted as Long, Wide, High and
\* Low: the comparisons are not strict.
analyzeFootTypeNonStrict(length, width, height) ==
  IF length = 0 \/ width = 0 \/ height = 0
  THEN AnalysisPending
  ELSE LET long == ~QuotientBelow(length, width, 26, 10)
           wide == ~QuotientAbove(length, width, 22, 10)
           high == ~QuotientBelow(height, length, 25, 100)
           low == ~QuotientAbove(height, length, 18, 100)
           footType == IF long THEN "Long Foot Type"
                       ELSE IF wide THEN "Wide Foot Type"
                       ELSE "Normal Foot Type"
       IN  [footType |-> footType,
            archType |-> IF high THEN "High Arch"
                         ELSE IF low THEN "Low Arch / Flat Foot"
                         ELSE "Normal Arch",
            description |-> FootTypeDescription(footType)]

\* analyzeFootType whose guard forgets the height: a zero height is
\* classified.
analyzeFootTypeNoHeightGuard(length, width, height) ==
  IF length = 0 \/ width = 0
  THEN AnalysisPending
  ELSE LET long == QuotientAbove(length, width, 26, 10)
           wide == QuotientBelow(length, width, 22, 10)
           high == QuotientAbove(height, length, 25, 100)
           low == QuotientBelow(height, length, 18, 100)
           footType == IF long THEN "Long Foot Type"
                       ELSE IF wide THEN "Wide Foot Type"
                       ELSE "Normal Foot Type"
       IN  [footType |-> footType,
            archType |-> IF high THEN "High Arch"
                         ELSE IF low THEN "Low Arch / Flat Foot"
                         ELSE "Normal Arch",
            description |-> FootTypeDescription(footType)]

\* analyzeFootType(length, width, height)
analyzeFootType(length, width, height) ==
  \* if (!length || !width || !height) return the sentinel
  IF length = 0 \/ width = 0 \/ height = 0
  THEN AnalysisPending
  ELSE LET \* lwRatio > 2.6, lwRatio < 2.2 with lwRatio = length / width
           long == QuotientAbove(length, width, 26, 10)
           wide == QuotientBelow(length, width, 22, 10)
           \* hlRatio > 0.25, hlRatio < 0.18 with hlRatio = height / length
           high == QuotientAbove(height, length, 25, 100)
           low == QuotientBelow(height, length, 18, 100)
           footType == IF long THEN "Long Foot Type"
                       ELSE IF wide THEN "Wide Foot Type"
                       ELSE "Normal Foot Type"
       IN  [footType |-> footType,
            archType |-> IF high THEN "High Arch"
                         ELSE IF low THEN "Low Arch / Flat Foot"
                         ELSE "Normal Arch",
            description |-> FootTypeDescription(footType)]

\* ReportGenerator.getFootTypeAnalysis(measurements), measurements an object
\* with numeric length, width and height.
getFootTypeAnalysis(measurements) ==
  \* if (!measurements.length || !measurements.width || !measurements.height)
  IF measurements.length = 0 \/ measurements.width = 0 \/ measurements.height = 0
  THEN AnalysisPending
  ELSE LET long == QuotientAbove(measurements.length, measurements.width, 26, 10)
           wide == QuotientBelow(measurements.length, measurements.width, 22, 10)
           high == QuotientAbove(measurements.height, measurements.length, 25, 100)
           low == QuotientBelow(measurements.height, measurements.length, 18, 100)
           footType == IF long THEN "Long Foot Type"
                       ELSE IF wide THEN "Wide Foot Type"
                       ELSE "Normal Foot Type"
       IN  [footType |-> footType,
            archType |-> IF high THEN "High Arch"
                         ELSE IF low THEN "Low Arch / Flat Foot"
                         ELSE "Normal Arch",
            description |-> FootTypeDescription(footType)]

\* The value null where a measurements object is expected.
NullMeasurements == [null |-> TRUE]

\* DualFootAnalyzer.analyzeFootType(measurements): the same body behind a
\* guard that also takes a missing measurements object.
DualFootAnalyzer_analyzeFootType(measurements) ==
  \* if (!measurements || !measurements.length || !measurements.width ||
  \*     !measurements.height)
  IF \/ "null" \in DOMAIN measurements
     \/ measurements.length = 0
     \/ measurements.width = 0
     \/ measurements.height = 0
  THEN AnalysisPending
  ELSE LET long == QuotientAbove(measurements.length, measurements.width, 26, 10)
           wide == QuotientBelow(measurements.length, measurements.width, 22, 10)
           high == QuotientAbove(measurements.height, measurements.length, 25, 100)
           low == QuotientBelow(measurements.height, measurements.length, 18, 100)
           footType == IF long THEN "Long Foot Type"
                       ELSE IF wide THEN "Wide Foot Type"
                       ELSE "Normal Foot Type"
       IN  [footType |-> footType,
            archType |-> IF high THEN "High Arch"
                         ELSE IF low THEN "Low Arch / Flat Foot"
                         ELSE "Normal Arch",
            description |-> FootTypeDescription(footType)]

\* A key the compact payload does not carry.
NoCode == "undefined"

\* value ? Math.round(value * 10) / 10 : 0 of a millimetre value, in tenths
\* of a millimetre; Math.round takes halves up.
RoundToTenth(value) ==
  IF value = 0 THEN 0 ELSE (2 * value + 1000) \div 2000

\* ReportGenerator.createCompactReportData(measurements, fileName): the
\* rounded dimensions m, the unit, and the codes t and a, which are set only
\* under if (measurements.length && measurements.width).  The name f is the
\* first 30 characters of fileName; the date d is the clock's.
createCompactReportData(measurements, fileName) ==
  LET coded == measurements.length # 0 /\ measurements.width # 0
  IN  [f |-> SubSeq(fileName, 1, IF Len(fileName) < 30 THEN Len(fileName) ELSE 30),
       m |-> [l |-> RoundToTenth(measurements.length),
              w |-> RoundToTenth(measurements.width),
              h |-> RoundToTenth(measurements.height),
              u |-> "mm"],
       type |-> "dual",
       t |-> IF ~coded THEN NoCode
             ELSE IF QuotientAbove(measurements.length, measurements.width, 26, 10)
             THEN "L"
             ELSE IF QuotientBelow(measurements.length, measurements.width, 22, 10)
             THEN "W"
             ELSE "N",
       a |-> IF ~coded THEN NoCode
             ELSE IF QuotientAbove(measurements.height, measurements.length, 25, 100)
             THEN "H"
             ELSE IF QuotientBelow(measurements.height, measurements.length, 18, 100)
             THEN "F"
             ELSE "N"]

(***************************************************************************)
(* The bilateral comparison, once in the report generator and once in the   *)
(* comparison tab of the UI.  Its divisions are kept exact: a quotient is   *)
(* a reduced fraction n / d with d > 0, and 0 / 0 is NaN.  The operands are *)
(* the non-negative dimensions of two records.                              *)
(***************************************************************************)

RECURSIVE GCD(_, _)
GCD(a, b) == IF b = 0 THEN a ELSE GCD(b, a % b)

NaN == [kind |-> "NaN", n |-> 0, d |-> 1]

\* The number n / d, d > 0, in lowest terms.
Number(n, d) ==
  LET g == GCD(Abs(n), d)
  IN  [kind |-> "number", n |-> n \div g, d |-> d \div g]

\* (1 - diff / max) * 100 with 0 <= diff <= max: 0 / 0 is NaN and NaN
\* propagates.
Symmetry(diff, max) ==
  IF max = 0
  THEN NaN
  ELSE LET q == Number(max - diff, max) IN Number(100 * q.n, q.d)

\* x + y
Plus(x, y) ==
  IF x.kind = "NaN" \/ y.kind = "NaN"
  THEN NaN
  ELSE Number(x.n * y.d + y.n * x.d, x.d * y.d)

\* x / k for an integer k > 0
Over(x, k) == IF x.kind = "NaN" THEN NaN ELSE Number(x.n, k * x.d)

\* Math.round(x): the nearest integer, halves up; NaN stays NaN.
MathRound(x) ==
  IF x.kind = "NaN" THEN NaN ELSE Number((2 * x.n + x.d) \div (2 * x.d), 1)

\* Math.floor(x)
MathFloor(x) ==
  IF x.kind = "NaN" THEN NaN ELSE Number(x.n \div x.d, 1)

\* x >= k for an integer k: false for NaN.
AtLeast(x, k) == x.kind = "number" /\ x.n >= k * x.d

\* value.toFixed(1) of a millimetre value, as the integer of its digits.
ToFixed1(value) == ToFixed(value, 10000, 1)

ReportExcellent == "Excellent bilateral symmetry"

ReportGood == "Good bilateral symmetry with minor differences"

ReportModerate == "Moderate asymmetry observed"

ReportSignificant ==
  "Significant asymmetry - professional consultation recommended"

\* addComparisonSection that rounds the mean down.
addComparisonSectionFloor(leftMeasurements, rightMeasurements) ==
  LET lengthDiff == Abs(leftMeasurements.length - rightMeasurements.length)
      widthDiff == Abs(leftMeasurements.width - rightMeasurements.width)
      heightDiff == Abs(leftMeasurements.height - rightMeasurements.height)
      maxLength == Max2(leftMeasurements.length, rightMeasurements.length)
      maxWidth == Max2(leftMeasurements.width, rightMeasurements.width)
      maxHeight == Max2(leftMeasurements.height, rightMeasurements.height)
      lengthSymmetry == Symmetry(lengthDiff, maxLength)
      widthSymmetry == Symmetry(widthDiff, maxWidth)
      heightSymmetry == Symmetry(heightDiff, maxHeight)
      overallSymmetry ==
        MathFloor(Over(Plus(Plus(lengthSymmetry, widthSymmetry),
                            heightSymmetry), 3))
  IN  [lengthDiff |-> ToFixed1(lengthDiff),
       widthDiff |-> ToFixed1(widthDiff),
       heightDiff |-> ToFixed1(heightDiff),
       lengthSymmetry |-> lengthSymmetry,
       widthSymmetry |-> widthSymmetry,
       heightSymmetry |-> heightSymmetry,
       overallSymmetry |-> overallSymmetry,
       symmetryEvaluation |->
         IF AtLeast(overallSymmetry, 90) THEN ReportExcellent
         ELSE IF AtLeast(overallSymmetry, 80) THEN ReportGood
         ELSE IF AtLeast(overallSymmetry, 70) THEN ReportModerate
         ELSE ReportSignificant]

\* addComparisonSection that relates each difference to the left foot rather
\* than to the larger of the two values.
addComparisonSectionOverLeft(leftMeasurements, rightMeasurements) ==
  LET lengthDiff == Abs(leftMeasurements.length - rightMeasurements.length)
      widthDiff == Abs(leftMeasurements.width - rightMeasurements.width)
      heightDiff == Abs(leftMeasurements.height - rightMeasurements.height)
      lengthSymmetry == Symmetry(lengthDiff, leftMeasurements.length)
      widthSymmetry == Symmetry(widthDiff, leftMeasurements.width)
      heightSymmetry == Symmetry(heightDiff, leftMeasurements.height)
      overallSymmetry ==
        MathRound(Over(Plus(Plus(lengthSymmetry, widthSymmetry),
                            heightSymmetry), 3))
  IN  [lengthDiff |-> ToFixed1(lengthDiff),
       widthDiff |-> ToFixed1(widthDiff),
       heightDiff |-> ToFixed1(heightDiff),
       lengthSymmetry |-> lengthSymmetry,
       widthSymmetry |-> widthSymmetry,
       heightSymmetry |-> heightSymmetry,
       overallSymmetry |-> overallSymmetry,
       symmetryEvaluation |->
         IF AtLeast(overallSymmetry, 90) THEN ReportExcellent
         ELSE IF AtLeast(overallSymmetry, 80) THEN ReportGood
         ELSE IF AtLeast(overallSymmetry, 70) THEN ReportModerate
         ELSE ReportSignificant]

\* ReportGenerator.addComparisonSection(doc, leftMeasurements,
\* rightMeasurements, yPos): the four texts and the assessment it writes to
\* the document, with the three axis symmetries they are computed from.
addComparisonSection(leftMeasurements, rightMeasurements) ==
  LET lengthDiff == Abs(leftMeasurements.length - rightMeasurements.length)
      widthDiff == Abs(leftMeasurements.width - rightMeasurements.width)
      heightDiff == Abs(leftMeasurements.height - rightMeasurements.height)
      maxLength == Max2(leftMeasurements.length, rightMeasurements.length)
      maxWidth == Max2(leftMeasurements.width, rightMeasurements.width)
      maxHeight == Max2(leftMeasurements.height, rightMeasurements.height)
      lengthSymmetry == Symmetry(lengthDiff, maxLength)
      widthSymmetry == Symmetry(widthDiff, maxWidth)
      heightSymmetry == Symmetry(heightDiff, maxHeight)
      overallSymmetry ==
        MathRound(Over(Plus(Plus(lengthSymmetry, widthSymmetry),
                            heightSymmetry), 3))
  IN  [lengthDiff |-> ToFixed1(lengthDiff),
       widthDiff |-> ToFixed1(widthDiff),
       heightDiff |-> ToFixed1(heightDiff),
       lengthSymmetry |-> lengthSymmetry,
       widthSymmetry |-> widthSymmetry,
       heightSymmetry |-> heightSymmetry,
       overallSymmetry |-> overallSymmetry,
       symmetryEvaluation |->
         IF AtLeast(overallSymmetry, 90) THEN ReportExcellent
         ELSE IF AtLeast(overallSymmetry, 80) THEN ReportGood
         ELSE IF AtLeast(overallSymmetry, 70) THEN ReportModerate
         ELSE ReportSignificant]

\* The four texts of the comparison summary of the UI, in English.
SummaryExcellent ==
  "The symmetry of both feet is excellent. The foot structure is balanced."

SummaryGood ==
  "The symmetry of both feet is good. Slight differences, within the normal range."

SummaryModerate ==
  "Slight differences between the feet are observed. Careful observation is needed."

SummarySignificant ==
  "Considerable differences between the feet are observed. Consulting a specialist is recommended."

\* (height / length).toFixed(2): its digits, or the text of 0 / 0 and of a
\* positive height over 0.
ArchText(height, length) ==
  IF length # 0
  THEN [text |-> "fixed", digits |-> ToFixed(height, length, 2)]
  ELSE IF height = 0
  THEN [text |-> "NaN", digits |-> 0]
  ELSE [text |-> "Infinity", digits |-> 0]

\* this.measurementData before storeMeasurements, and as storeMeasurements
\* builds it.
NoMeasurementData == [kind |-> "null"]

MeasurementData(leftMeasurements, rightMeasurements) ==
  [kind |-> "data",
   left |-> [measurements |-> leftMeasurements],
   right |-> [measurements |-> rightMeasurements]]

\* updateComparisonData whose second band starts at 85.
updateComparisonDataShiftedBand(measurementData) ==
  IF measurementData.kind = "null"
  THEN [updated |-> FALSE]
  ELSE
  LET left == measurementData.left.measurements
      right == measurementData.right.measurements
      lengthDiff == Abs(left.length - right.length)
      widthDiff == Abs(left.width - right.width)
      heightDiff == Abs(left.height - right.height)
      maxLength == Max2(left.length, right.length)
      maxWidth == Max2(left.width, right.width)
      maxHeight == Max2(left.height, right.height)
      lengthSymmetry == Symmetry(lengthDiff, maxLength)
      widthSymmetry == Symmetry(widthDiff, maxWidth)
      heightSymmetry == Symmetry(heightDiff, maxHeight)
      overallSymmetry ==
        MathRound(Over(Plus(Plus(lengthSymmetry, widthSymmetry),
                            heightSymmetry), 3))
  IN  [updated |-> TRUE,
       lengthDiff |-> ToFixed1(lengthDiff),
       widthDiff |-> ToFixed1(widthDiff),
       heightDiff |-> ToFixed1(heightDiff),
       lengthSymmetry |-> lengthSymmetry,
       widthSymmetry |-> widthSymmetry,
       heightSymmetry |-> heightSymmetry,
       symmetryScore |-> overallSymmetry,
       leftLengthCompare |-> ToFixed1(left.length),
       rightLengthCompare |-> ToFixed1(right.length),
       leftWidthCompare |-> ToFixed1(left.width),
       rightWidthCompare |-> ToFixed1(right.width),
       leftHeightCompare |-> ToFixed1(left.height),
       rightHeightCompare |-> ToFixed1(right.height),
       leftArchCompare |-> ArchText(left.height, left.length),
       rightArchCompare |-> ArchText(right.height, right.length),
       comparisonSummary |->
         IF AtLeast(overallSymmetry, 90) THEN SummaryExcellent
         ELSE IF AtLeast(overallSymmetry, 85) THEN SummaryGood
         ELSE IF AtLeast(overallSymmetry, 70) THEN SummaryModerate
         ELSE SummarySignificant]

\* UIController.updateComparisonData() on this.measurementData: the text of
\* every element it writes (all elements of the comparison tab exist), with
\* the three axis symmetries they are computed from; nothing is written when
\* no measurement data is stored.
updateComparisonData(measurementData) ==
  IF measurementData.kind = "null"
  THEN [updated |-> FALSE]
  ELSE
  LET left == measurementData.left.measurements
      right == measurementData.right.measurements
      lengthDiff == Abs(left.length - right.length)
      widthDiff == Abs(left.width - right.width)
      heightDiff == Abs(left.height - right.height)
      maxLength == Max2(left.length, right.length)
      maxWidth == Max2(left.width, right.width)
      maxHeight == Max2(left.height, right.height)
      lengthSymmetry == Symmetry(lengthDiff, maxLength)
      widthSymmetry == Symmetry(widthDiff, maxWidth)
      heightSymmetry == Symmetry(heightDiff, maxHeight)
      overallSymmetry ==
        MathRound(Over(Plus(Plus(lengthSymmetry, widthSymmetry),
                            heightSymmetry), 3))
  IN  [updated |-> TRUE,
       lengthDiff |-> ToFixed1(lengthDiff),
       widthDiff |-> ToFixed1(widthDiff),
       heightDiff |-> ToFixed1(heightDiff),
       lengthSymmetry |-> lengthSymmetry,
       widthSymmetry |-> widthSymmetry,
       heightSymmetry |-> heightSymmetry,
       symmetryScore |-> overallSymmetry,
       leftLengthCompare |-> ToFixed1(left.length),
       rightLengthCompare |-> ToFixed1(right.length),
       leftWidthCompare |-> ToFixed1(left.width),
       rightWidthCompare |-> ToFixed1(right.width),
       leftHeightCompare |-> ToFixed1(left.height),
       rightHeightCompare |-> ToFixed1(right.height),
       leftArchCompare |-> ArchText(left.height, left.length),
       rightArchCompare |-> ArchText(right.height, right.length),
       comparisonSummary |->
         IF AtLeast(overallSymmetry, 90) THEN SummaryExcellent
         ELSE IF AtLeast(overallSymmetry, 80) THEN SummaryGood
         ELSE IF AtLeast(overallSymmetry, 70) THEN SummaryModerate
         ELSE SummarySignificant]

(***************************************************************************)
(* The engine.                                                              *)
(***************************************************************************)

VARIABLES
  footMeasurements,  \* this.footMeasurements
  measurementLines,  \* this.measurementLines, each line by its userData.type
  events,            \* the CustomEvents the last measurement call dispatched
  call,              \* the last performPreciseMeasurements call: arguments,
                     \* logged estimates, result
  probe,             \* the last read-only call since then and its result
  earlier,           \* an earlier performPreciseMeasurements call, kept to
                     \* compare a repeated call with
  heap,              \* the record objects the engine has returned, by
                     \* reference (their position in this sequence)
  flows,             \* the invocations of handleDualFootAnalysisStarted:
                     \* where each one stands and its local variables
  loop,              \* the event loop of the page: the invocation that is
                     \* running, the queued continuations, and every
                     \* notification dispatched, in order
  analyzer,          \* DualFootAnalyzer: footData and analysisComplete
  application        \* FootAnalyzer, the single-foot application: its
                     \* fields, its file loader, the loads in flight and
                     \* the timers set

vars ==
  <<footMeasurements, measurementLines, events, call, probe, earlier, heap,
    flows, loop, analyzer, application>>

\* The state of the dual-foot application.
dualVars == <<heap, flows, loop, analyzer>>

FlowIds == 1..MaxFlows

\* An invocation that has not been made.
IdleFlow ==
  [pc |-> "idle", left |-> [kind |-> "none"], right |-> [kind |-> "none"],
   pos |-> 0, suspended |-> FALSE, leftMeasurements |-> 0,
   rightMeasurements |-> 0]

\* new DualFootAnalyzer(): no file loaded, nothing measured; a reference of
\* 0 is null.
InitDual ==
  /\ heap = << >>
  /\ flows = [id \in FlowIds |-> IdleFlow]
  /\ loop = [running |-> 0, microtasks |-> << >>, log |-> << >>,
             loads |-> {}, selected |-> 0]
  /\ analyzer =
       [footData |->
          [left |-> [fileName |-> "", geometry |-> [kind |-> "null"],
                     isLoaded |-> FALSE, measurements |-> 0],
           right |-> [fileName |-> "", geometry |-> [kind |-> "null"],
                      isLoaded |-> FALSE, measurements |-> 0]],
        analysisComplete |-> FALSE,
        requested |-> [kind |-> "none"]]

\* new FootAnalyzer() and its FileLoader: no file name, measurements and
\* analysis {}, nothing shown, no load in flight and no timer set.
InitApplication ==
  application =
    [currentFileName |-> "",
     measurements |-> [kind |-> "empty"],
     analysis |-> [kind |-> "empty"],
     fileLoader |-> [currentFileName |-> ""],
     sceneManager |-> [geometry |-> [kind |-> "null"],
                       currentModel |-> "null"],
     ui |-> [fileName |-> "", measurements |-> [kind |-> "empty"],
             reportFileName |-> ""],
     loads |-> {},
     selected |-> 0,
     timers200 |-> << >>,
     timers300 |-> << >>]

\* {} , the value of footMeasurements after construction and after dispose()
EmptyRecord == [kind |-> "empty"]

\* the value of a call that returns nothing
Undefined == [kind |-> "undefined"]

ConfidenceFallbackRecord == "low (fallback mode)"

ConfidenceFallbackEvent == "low (fallback)"

StatusInvalid == "error: invalid 3D data"

StatusStarted == "analyzing foot structure..."

StatusProgress == "performing precise measurement..."

StatusComplete == "measurement complete - precision verified"

StatusFallback == "basic measurement complete (fallback mode)"

MeasurementStarted(status) == [type |-> "measurementStarted", status |-> status]

MeasurementProgress(status) == [type |-> "measurementProgress", status |-> status]

MeasurementComplete(measurements, ratios, analysis, status, confidence) ==
  [type |-> "measurementComplete", measurements |-> measurements,
   ratios |-> ratios, analysis |-> analysis, status |-> status,
   confidence |-> confidence]

\* The scaled estimates the try block logs before validating them.
NoEstimate == [reached |-> FALSE]

Estimate(footLength, footWidth, footHeight) ==
  [reached |-> TRUE, length |-> footLength, width |-> footWidth,
   height |-> footHeight]

\* geometry.computeBoundingBox(); geometry.boundingBox
computeBoundingBox(geometry) == Box3FromPoints(geometry.position)

\* performFallbackMeasurement without the Math.max floors.
performFallbackMeasurementNoFloor(geometry, currentModel) ==
  LET bbox == computeBoundingBox(geometry)
      size == GetSize(bbox)
      maxDim == Max2(size.x, Max2(size.y, size.z))
      unitMultiplier == IF maxDim < Raw(1) THEN 10000 ELSE 10
      measurements ==
        [kind |-> "record",
         length |-> size.z * unitMultiplier,
         width |-> size.x * unitMultiplier,
         height |-> size.y * unitMultiplier,
         unit |-> "mm",
         confidence |-> ConfidenceFallbackRecord,
         originalVertices |-> << >>,
         boundingBox |-> bbox,
         vertexCount |-> Len(geometry.position)]
  IN  [measurements |-> measurements,
       ratios |-> calculateRatios(measurements.length, measurements.width,
                                  measurements.height),
       analysis |-> analyzeFootType(measurements.length, measurements.width,
                                    measurements.height)]

\* performFallbackMeasurement that takes its multiplier from detectUnit.
performFallbackMeasurementFiveBands(geometry, currentModel) ==
  LET bbox == computeBoundingBox(geometry)
      size == GetSize(bbox)
      maxDim == Max2(size.x, Max2(size.y, size.z))
      unitMultiplier == detectUnit(maxDim).multiplier
      measurements ==
        [kind |-> "record",
         length |-> Max2(size.z * unitMultiplier, Mm(50)),
         width |-> Max2(size.x * unitMultiplier, Mm(30)),
         height |-> Max2(size.y * unitMultiplier, Mm(20)),
         unit |-> "mm",
         confidence |-> ConfidenceFallbackRecord,
         originalVertices |-> << >>,
         boundingBox |-> bbox,
         vertexCount |-> Len(geometry.position)]
  IN  [measurements |-> measurements,
       ratios |-> calculateRatios(measurements.length, measurements.width,
                                  measurements.height),
       analysis |-> analyzeFootType(measurements.length, measurements.width,
                                    measurements.height)]

\* performFallbackMeasurement(geometry, currentModel)
performFallbackMeasurement(geometry, currentModel) ==
  LET bbox == computeBoundingBox(geometry)
      size == GetSize(bbox)
      maxDim == Max2(size.x, Max2(size.y, size.z))
      unitMultiplier == IF maxDim < Raw(1) THEN 10000
                        ELSE IF maxDim > Raw(500) THEN 10
                        ELSE 10
      footLength == size.z * unitMultiplier
      footWidth == size.x * unitMultiplier
      footHeight == size.y * unitMultiplier
      measurements ==
        [kind |-> "record",
         length |-> Max2(footLength, Mm(50)),
         width |-> Max2(footWidth, Mm(30)),
         height |-> Max2(footHeight, Mm(20)),
         unit |-> "mm",
         confidence |-> ConfidenceFallbackRecord,
         originalVertices |-> << >>,
         boundingBox |-> bbox,
         vertexCount |-> Len(geometry.position)]
  IN  [measurements |-> measurements,
       ratios |-> calculateRatios(measurements.length, measurements.width,
                                  measurements.height),
       analysis |-> analyzeFootType(measurements.length, measurements.width,
                                    measurements.height)]

\* An exception leaving the try block: the events dispatched before it and
\* the estimates logged before it.
Thrown(error, dispatched, estimate) ==
  [threw |-> TRUE, error |-> error, events |-> dispatched,
   estimate |-> estimate]

\* The try block of performPreciseMeasurements.
tryBlock(geometry, currentModel) ==
  LET positions == geometry.position
      vertexCount == Len(positions)
  IN  IF vertexCount = 0
      THEN Thrown("empty geometry data", << >>, NoEstimate)
      ELSE IF currentModel = "noRotation"
      THEN Thrown("TypeError", << >>, NoEstimate)
      ELSE
        LET originalVertices ==
              IF currentModel = "none"
              THEN positions
              ELSE [i \in 1..Len(positions) |->
                      ApplyRotation(currentModel, positions[i])]
            bbox == Box3FromPoints(originalVertices)
            size == GetSize(bbox)
            maxDim == Max2(size.x, Max2(size.y, size.z))
            unitData == detectUnit(maxDim)
            footLength == measureFootLength(originalVertices, bbox) * unitData.multiplier
            footWidth == measureFootWidth(originalVertices, bbox) * unitData.multiplier
            footHeight == measureFootHeight(originalVertices, bbox) * unitData.multiplier
            estimate == Estimate(footLength, footWidth, footHeight)
            record ==
              [kind |-> "record",
               length |-> footLength,
               width |-> footWidth,
               height |-> footHeight,
               unit |-> unitData.unit,
               confidence |-> unitData.confidence,
               originalVertices |-> originalVertices,
               boundingBox |-> bbox,
               vertexCount |-> vertexCount]
        IN  IF ~validateMeasurements(footLength, footWidth, footHeight)
            THEN Thrown("measurement validation failed",
                        << MeasurementProgress(StatusProgress) >>, estimate)
            ELSE [threw |-> FALSE,
                  footMeasurements |-> record,
                  events |->
                    << MeasurementProgress(StatusProgress),
                       MeasurementComplete(
                         record,
                         calculateRatios(footLength, footWidth, footHeight),
                         analyzeFootType(footLength, footWidth, footHeight),
                         StatusComplete, unitData.confidence) >>,
                  estimate |-> estimate,
                  result |-> record]

\* A catch block that rethrows a validation failure instead of falling back.
catchBlockRethrow(geometry, currentModel, tried) ==
  IF tried.estimate.reached
  THEN [outcome |-> "rejected", assigned |-> FALSE,
        footMeasurements |-> EmptyRecord, events |-> tried.events,
        estimate |-> tried.estimate, result |-> Undefined]
  ELSE LET fallbackResult == performFallbackMeasurement(geometry, currentModel)
       IN  [outcome |-> "returned", assigned |-> FALSE,
            footMeasurements |-> EmptyRecord,
            events |->
              Append(tried.events,
                     MeasurementComplete(fallbackResult.measurements,
                                         fallbackResult.ratios,
                                         fallbackResult.analysis,
                                         StatusFallback, ConfidenceFallbackEvent)),
            estimate |-> tried.estimate,
            result |-> fallbackResult.measurements]

\* A catch block that returns the record the engine already holds, when it
\* holds one, instead of computing the fallback.
catchBlockStale(geometry, currentModel, tried) ==
  LET fallbackResult == performFallbackMeasurement(geometry, currentModel)
      kept == IF footMeasurements.kind = "record"
              THEN footMeasurements ELSE fallbackResult.measurements
  IN  [outcome |-> "returned", assigned |-> FALSE,
       footMeasurements |-> EmptyRecord,
       events |->
         Append(tried.events,
                MeasurementComplete(kept, fallbackResult.ratios,
                                    fallbackResult.analysis,
                                    StatusFallback, ConfidenceFallbackEvent)),
       estimate |-> tried.estimate,
       result |-> kept]

\* A catch block that dispatches measurementComplete a second time when the
\* try block had already reported progress.
catchBlockTwice(geometry, currentModel, tried) ==
  LET fallbackResult == performFallbackMeasurement(geometry, currentModel)
      complete == MeasurementComplete(fallbackResult.measurements,
                                      fallbackResult.ratios,
                                      fallbackResult.analysis,
                                      StatusFallback, ConfidenceFallbackEvent)
  IN  [outcome |-> "returned", assigned |-> FALSE,
       footMeasurements |-> EmptyRecord,
       events |-> IF Len(tried.events) > 0
                  THEN tried.events \o << complete, complete >>
                  ELSE << complete >>,
       estimate |-> tried.estimate,
       result |-> fallbackResult.measurements]

\* The catch block of performPreciseMeasurements, entered with what the try
\* block had done when it threw.
catchBlock(geometry, currentModel, tried) ==
  LET fallbackResult == performFallbackMeasurement(geometry, currentModel)
  IN  [outcome |-> "returned",
       assigned |-> FALSE,
       footMeasurements |-> EmptyRecord,
       events |->
         Append(tried.events,
                MeasurementComplete(fallbackResult.measurements,
                                    fallbackResult.ratios,
                                    fallbackResult.analysis,
                                    StatusFallback, ConfidenceFallbackEvent)),
       estimate |-> tried.estimate,
       result |-> fallbackResult.measurements]

\* performPreciseMeasurements(geometry, currentModel): how the promise
\* settles, whether this.footMeasurements is assigned and to what, the
\* events dispatched, in order, and the value returned.
performPreciseMeasurements(geometry, currentModel) ==
  IF geometry.kind # "buffer"
  THEN [outcome |-> "aborted",
        assigned |-> FALSE,
        footMeasurements |-> EmptyRecord,
        events |-> << MeasurementStarted(StatusInvalid) >>,
        estimate |-> NoEstimate,
        result |-> Undefined]
  ELSE LET tried == tryBlock(geometry, currentModel)
           done == IF tried.threw
                   THEN catchBlock(geometry, currentModel, tried)
                   ELSE [outcome |-> "returned",
                         assigned |-> TRUE,
                         footMeasurements |-> tried.footMeasurements,
                         events |-> tried.events,
                         estimate |-> tried.estimate,
                         result |-> tried.result]
       IN  [done EXCEPT !.events = << MeasurementStarted(StatusStarted) >> \o @]

\* performPreciseMeasurements reads no field of the engine: what a call does
\* is a function of its arguments, computed once per argument pair.
Runs ==
  {[geometry |-> geometry, currentModel |-> currentModel,
    done |-> performPreciseMeasurements(geometry, currentModel)] :
     geometry \in Geometries, currentModel \in Models}

\* The argument pairs of the repeated-call specification: the millimetre
\* scans as exported, with and without the model's rotation.
IdemRuns ==
  {[geometry |-> geometry, currentModel |-> currentModel,
    done |-> performPreciseMeasurements(geometry, currentModel)] :
     geometry \in {BufferGeometry(PickVertices(pick, 1000, "lying")) :
                     pick \in SUBSET (1..MaxVertices)},
     currentModel \in {"none", "rotXNeg90"}}

\* new MeasurementEngine()
Init ==
  /\ footMeasurements = EmptyRecord
  /\ measurementLines = << >>
  /\ events = << >>
  /\ call = [op |-> "none"]
  /\ probe = [op |-> "none"]
  /\ earlier = [op |-> "none"]
  /\ InitDual
  /\ InitApplication

\* await engine.performPreciseMeasurements(run.geometry, run.currentModel)
Perform(run) ==
  /\ footMeasurements' =
       IF run.done.assigned THEN run.done.footMeasurements
       ELSE footMeasurements
  /\ events' = run.done.events
  /\ call' = [op |-> "performPreciseMeasurements",
              geometry |-> run.geometry,
              currentModel |-> run.currentModel,
              outcome |-> run.done.outcome,
              estimate |-> run.done.estimate,
              result |-> run.done.result]
  /\ probe' = [op |-> "none"]
  /\ UNCHANGED <<measurementLines, dualVars, application>>

PerformPreciseMeasurements ==
  \E run \in Runs : Perform(run) /\ UNCHANGED earlier

\* The same call, the call it supersedes being kept or not for comparison
\* with later ones.
PerformRepeatable ==
  \E run \in IdemRuns, keep \in BOOLEAN :
    /\ Perform(run)
    /\ earlier' = IF keep /\ call.op = "performPreciseMeasurements"
                  THEN call ELSE earlier

\* engine.getMeasurements()
GetMeasurements ==
  /\ probe' = [op |-> "getMeasurements", result |-> footMeasurements]
  /\ UNCHANGED <<footMeasurements, measurementLines, events, call, earlier,
                 dualVars, application>>

\* engine.dispose()
Dispose ==
  /\ measurementLines' = << >>
  /\ footMeasurements' = EmptyRecord
  /\ call' = [op |-> "dispose"]
  /\ probe' = [op |-> "none"]
  /\ UNCHANGED <<events, earlier, dualVars, application>>

Next == PerformPreciseMeasurements \/ GetMeasurements \/ Dispose

Spec == Init /\ [][Next]_vars

\* Repeated calls on one engine, with disposals between them.
NextIdem == PerformRepeatable \/ Dispose

SpecIdem == Init /\ [][NextIdem]_vars

(***************************************************************************)
(* The pure functions, applied to sampled arguments on an engine that holds *)
(* the record of some earlier measurement or none.                          *)
(***************************************************************************)

\* Maximum dimensions around every threshold of detectUnit.
DimSamples ==
  {0 - Raw(1), 0, 300, 499, 500, 501, Raw(2), Raw(5) - 1, Raw(5), Raw(20),
   Raw(50) - 1, Raw(50), Raw(200), Raw(500), Raw(500) + 1, Raw(800)}

\* Millimetre values around the bounds of validateMeasurements: 0, the bound
\* less 0.1, the bound, an inner value, the bound, the bound plus 0.1.
LengthSamples ==
  {0, Mm(50) - 1000, Mm(50), Mm(260), Mm(500), Mm(500) + 1000}

WidthSamples ==
  {0, Mm(20) - 1000, Mm(20), Mm(100), Mm(200), Mm(200) + 1000}

HeightSamples ==
  {0, Mm(10) - 1000, Mm(10), Mm(65), Mm(150), Mm(150) + 1000}

InitPure ==
  /\ footMeasurements \in
       {EmptyRecord} \cup {run.done.footMeasurements : run \in IdemRuns}
  /\ measurementLines = << >>
  /\ events = << >>
  /\ call = [op |-> "none"]
  /\ probe = [op |-> "none"]
  /\ earlier = [op |-> "none"]
  /\ InitDual
  /\ InitApplication

\* engine.detectUnit(maxDim)
DetectUnit ==
  \E maxDim \in DimSamples :
    /\ probe' = [op |-> "detectUnit", maxDim |-> maxDim,
                 result |-> detectUnit(maxDim)]
    /\ UNCHANGED <<footMeasurements, measurementLines, events, call, earlier,
                 dualVars, application>>

\* engine.validateMeasurements(length, width, height)
ValidateMeasurements ==
  \E length \in LengthSamples, width \in WidthSamples, height \in HeightSamples :
    /\ probe' = [op |-> "validateMeasurements", length |-> length,
                 width |-> width, height |-> height,
                 result |-> validateMeasurements(length, width, height)]
    /\ UNCHANGED <<footMeasurements, measurementLines, events, call, earlier,
                 dualVars, application>>

\* Dimensions around every threshold of analyzeFootType: length / width of
\* 2.19, 2.2, 2.5, 2.6 and 2.61 over a width of 100 mm, height / length of
\* 0.25 over 260 mm and of 0.18 over 250 mm and their neighbours, a zero and
\* a negative value per argument.
ClassifyLengths ==
  {0, Mm(219), Mm(220), Mm(250), Mm(260), Mm(261), 0 - Mm(260)}

ClassifyWidths == {0, Mm(100), 0 - Mm(100)}

ClassifyHeights ==
  {0, Mm(44), Mm(45), Mm(46), Mm(64), Mm(65), Mm(66), 0 - Mm(65)}

\* engine.analyzeFootType(length, width, height)
AnalyzeFootType ==
  \E length \in ClassifyLengths, width \in ClassifyWidths,
     height \in ClassifyHeights :
    /\ probe' = [op |-> "analyzeFootType", length |-> length,
                 width |-> width, height |-> height,
                 result |-> analyzeFootType(length, width, height)]
    /\ UNCHANGED <<footMeasurements, measurementLines, events, call, earlier,
                 dualVars, application>>

NextPure == DetectUnit \/ ValidateMeasurements \/ AnalyzeFootType

SpecPure == InitPure /\ [][NextPure]_vars

(***************************************************************************)
(* The bilateral comparison applied to pairs of records.  Both copies are   *)
(* functions of the pair alone, so a behaviour compares one pair: every     *)
(* comparison the program can make is the first step of some behaviour.     *)
(***************************************************************************)

\* The dimensions of the records that are compared: a usual foot, smaller
\* ones and 0.  Their overall scores include 69, 70, 79, 80, 89 and 90, and
\* no mean of three axis symmetries lies halfway between two integers.
CompareLengths == {0, Mm(125), Mm(240), Mm(250)}

CompareWidths == {0, Mm(50), Mm(90), Mm(100)}

CompareHeights == {0, Mm(26), Mm(39), Mm(52), Mm(65)}

CompareRecords ==
  [length : CompareLengths, width : CompareWidths, height : CompareHeights]

\* The report generator and the comparison tab, each on the same pair of
\* records.
Compare ==
  \E leftMeasurements \in CompareRecords, rightMeasurements \in CompareRecords :
    /\ probe.op = "none"
    /\ probe' = [op |-> "compare", left |-> leftMeasurements,
                 right |-> rightMeasurements,
                 report |-> addComparisonSection(leftMeasurements,
                                                 rightMeasurements),
                 ui |-> updateComparisonData(
                          MeasurementData(leftMeasurements, rightMeasurements))]
    /\ UNCHANGED <<footMeasurements, measurementLines, events, call, earlier,
                 dualVars, application>>

\* The comparison tab when no measurement is stored.
CompareNothing ==
  /\ probe' = [op |-> "updateComparisonData",
               ui |-> updateComparisonData(NoMeasurementData)]
  /\ UNCHANGED <<footMeasurements, measurementLines, events, call, earlier,
                 dualVars, application>>

NextCompare == Compare \/ CompareNothing

SpecCompare == Init /\ [][NextCompare]_vars

(***************************************************************************)
(* The three landmark estimators applied to vertex lists.  Each is a        *)
(* function of the list alone, so a behaviour measures one list.            *)
(***************************************************************************)

\* Points of a scan 100 high (Y) and 100 long (Z) when heel, toe and top are
\* present: heel and toe on the sole, points at 15 %, 16 %, 20 % and 21 % of
\* the height, at 59 %, 60 %, 75 % and 71 % of the length, the top of the
\* instep at 30 %, a point above the sole that overhangs the toe, a point in
\* the middle and one as high and as far as the scan goes.
Landmarks ==
  << Vector3(0, 0, 0), Vector3(5, 0, 100), Vector3(50, 15, 60),
     Vector3(90, 20, 75), Vector3(95, 21, 70), Vector3(99, 0, 59),
     Vector3(30, 100, 30), Vector3(40, 80, 71), Vector3(60, 16, 130),
     Vector3(70, 50, 50), Vector3(10, 100, 100) >>

\* The vertex lists measured: up to MaxVertices landmarks, in scan order.
LandmarkLists ==
  {LET sel == SelectSeq([i \in 1..Len(Landmarks) |-> i], LAMBDA i : i \in pick)
   IN  [k \in 1..Len(sel) |-> Landmarks[sel[k]]] :
     pick \in {q \in SUBSET (1..Len(Landmarks)) : Cardinality(q) <= MaxVertices}}

\* measureFootLength, measureFootWidth and measureFootHeight on the same
\* vertex list and its bounding box, as performPreciseMeasurements calls
\* them.
MeasureLandmarks ==
  \E vertices \in LandmarkLists :
    /\ probe.op = "none"
    /\ LET bbox == Box3FromPoints(vertices)
       IN  probe' = [op |-> "measureLandmarks", vertices |-> vertices,
                     bbox |-> bbox,
                     length |-> measureFootLength(vertices, bbox),
                     width |-> measureFootWidth(vertices, bbox),
                     height |-> measureFootHeight(vertices, bbox)]
    /\ UNCHANGED <<footMeasurements, measurementLines, events, call, earlier,
                   dualVars, application>>

\* The three estimators on an empty vertex list, with the bounding box of
\* some scan.
MeasureNoVertices ==
  \E scan \in LandmarkLists :
    /\ probe.op = "none"
    /\ LET bbox == Box3FromPoints(scan)
       IN  probe' = [op |-> "measureLandmarks", vertices |-> << >>,
                     bbox |-> bbox,
                     length |-> measureFootLength(<< >>, bbox),
                     width |-> measureFootWidth(<< >>, bbox),
                     height |-> measureFootHeight(<< >>, bbox)]
    /\ UNCHANGED <<footMeasurements, measurementLines, events, call, earlier,
                   dualVars, application>>

NextLandmarks == MeasureLandmarks \/ MeasureNoVertices

SpecLandmarks == Init /\ [][NextLandmarks]_vars

(***************************************************************************)
(* The copies of the shape classifier and the codes of the compact payload, *)
(* applied to one record of sampled dimensions.                             *)
(***************************************************************************)

\* The name the dual-foot page passes to the QR generator.
DualFileName ==
  << "d", "u", "a", "l", "_", "f", "o", "o", "t", "_", "a", "n", "a", "l",
     "y", "s", "i", "s" >>

\* engine.analyzeFootType, reportGenerator.getFootTypeAnalysis,
\* DualFootAnalyzer.analyzeFootType and
\* reportGenerator.createCompactReportData on the same record.
ClassifyRecord ==
  \E length \in ClassifyLengths, width \in ClassifyWidths,
     height \in ClassifyHeights :
    /\ probe.op = "none"
    /\ LET measurements == [length |-> length, width |-> width,
                            height |-> height]
       IN  probe' = [op |-> "classifyRecord",
                     measurements |-> measurements,
                     engine |-> analyzeFootType(length, width, height),
                     report |-> getFootTypeAnalysis(measurements),
                     dual |-> DualFootAnalyzer_analyzeFootType(measurements),
                     compact |-> createCompactReportData(measurements,
                                                         DualFileName)]
    /\ UNCHANGED <<footMeasurements, measurementLines, events, call, earlier,
                   dualVars, application>>

NextClassify == ClassifyRecord

SpecClassify == Init /\ [][NextClassify]_vars

(***************************************************************************)
(* The single-foot application.  A file selection starts a load; the load   *)
(* completes in a later task, in any order with other loads; its handler    *)
(* sets a 200 ms timer that fits the camera and sets a 300 ms timer that     *)
(* measures.  Timers of equal delay fire in the order they were set.        *)
(***************************************************************************)

\* The PLY files of a session: two different feet, exported standing, in
\* metres and in half millimetres.
SingleFiles ==
  {[name |-> "first.ply",
    geometry |-> BufferGeometry(PickVertices({1, 2, 3, 4}, 1, "standing"))],
   [name |-> "second.ply",
    geometry |-> BufferGeometry(PickVertices({1, 2, 4}, 2000, "standing"))]}

\* What the measurement of each file's geometry does under the model the
\* scene builds for a standing scan, which carries rotation.x = -PI/2.
SingleRuns ==
  {[geometry |-> file.geometry, currentModel |-> "rotXNeg90",
    done |-> performPreciseMeasurements(file.geometry, "rotXNeg90")] :
     file \in SingleFiles}

SingleRunOf(geometry) == CHOOSE run \in SingleRuns : run.geometry = geometry

\* handleFileSelected with a PLY file: fileLoader.loadFile(file) up to its
\* await, the loadStarted listener handleFileLoadStarted included.
SelectFile ==
  \E file \in SingleFiles :
    /\ application.selected < MaxLoads
    /\ application' =
         [application EXCEPT
            !.fileLoader.currentFileName = file.name,
            !.currentFileName = file.name,
            !.ui.fileName = file.name,
            !.selected = @ + 1,
            !.loads = @ \cup {[file |-> file, n |-> application.selected + 1]}]
    /\ UNCHANGED <<footMeasurements, measurementLines, events, call, probe,
                   earlier, dualVars>>

\* The loader delivers the geometry of a load in flight: setGeometry,
\* resolve, then loadFile dispatches loadCompleted and
\* handleFileLoadCompleted updates the model view and sets the 200 ms timer.
CompleteLoad ==
  \E load \in application.loads :
    /\ application' =
         [application EXCEPT
            !.sceneManager = [geometry |-> load.file.geometry,
                              currentModel |-> "rotXNeg90"],
            !.loads = @ \ {load},
            !.timers200 = Append(@, [geometry |-> load.file.geometry])]
    /\ UNCHANGED <<footMeasurements, measurementLines, events, call, probe,
                   earlier, dualVars>>

\* The 200 ms timer of handleFileLoadCompleted: with a current model the
\* camera is fitted and the 300 ms timer set, with the geometry of the
\* event and the model of the scene at this moment; without one the view is
\* reset.
FitCamera ==
  /\ Len(application.timers200) > 0
  /\ LET timer == Head(application.timers200)
         currentModel == application.sceneManager.currentModel
     IN  application' =
           [application EXCEPT
              !.timers200 = Tail(@),
              !.timers300 =
                IF currentModel # "null"
                THEN Append(@, [geometry |-> timer.geometry,
                                currentModel |-> currentModel])
                ELSE @]
  /\ UNCHANGED <<footMeasurements, measurementLines, events, call, probe,
                 earlier, dualVars>>

\* The 300 ms timer: measurementEngine.performPreciseMeasurements(geometry,
\* currentModel), whose measurementComplete notification runs
\* handleMeasurementComplete before the call returns.
Measure ==
  /\ Len(application.timers300) > 0
  /\ \E run \in SingleRuns :
       /\ run.geometry = Head(application.timers300).geometry
       /\ run.currentModel = Head(application.timers300).currentModel
       /\ footMeasurements' =
            IF run.done.assigned THEN run.done.footMeasurements
            ELSE footMeasurements
       /\ events' = run.done.events
       /\ call' = [op |-> "performPreciseMeasurements",
                   geometry |-> run.geometry,
                   currentModel |-> run.currentModel,
                   outcome |-> run.done.outcome,
                   estimate |-> run.done.estimate,
                   result |-> run.done.result]
       /\ \E complete \in Range(run.done.events) :
            /\ complete.type = "measurementComplete"
            /\ application' =
                 [application EXCEPT
                    !.timers300 = Tail(@),
                    !.measurements = complete.measurements,
                    !.analysis = complete.analysis,
                    !.ui.measurements = complete.measurements,
                    !.ui.reportFileName = application.currentFileName]
  /\ probe' = [op |-> "none"]
  /\ UNCHANGED <<measurementLines, earlier, dualVars>>

NextSingle == SelectFile \/ CompleteLoad \/ FitCamera \/ Measure

SpecSingle == Init /\ [][NextSingle]_vars

(***************************************************************************)
(* The dual-foot application.  The page runs one piece of code at a time:   *)
(* a task (a click, the completion of a file load) starts only when nothing *)
(* runs and no continuation is queued, and the continuation of an await on  *)
(* a settled promise is queued as a microtask.  A measurement call          *)
(* dispatches its notifications one step at a time, so that a call that     *)
(* gave up control in between would let other code run.                     *)
(***************************************************************************)

\* The scans a foot file may hold: two different feet that validate and an
\* empty buffer, which ends in the fallback.
DualGeometries ==
  {BufferGeometry(PickVertices({1, 2, 3, 4}, 1000, "lying")),
   BufferGeometry(PickVertices({1, 2, 4}, 2000, "lying")),
   BufferGeometry(<< >>)}

\* What the measurement of each scan does; the foot models of the scene
\* carry no rotation.
DualRuns ==
  {[geometry |-> geometry, currentModel |-> "none",
    done |-> performPreciseMeasurements(geometry, "none")] :
     geometry \in DualGeometries}

RunOf(geometry) == CHOOSE run \in DualRuns : run.geometry = geometry

\* A mutation of Suspends: the call awaits a pending promise after its
\* first notification.
SuspendsAfterStarted(n) == n = 1

\* Whether performPreciseMeasurements gives up control after its n-th
\* notification: its body holds no await, so it never does.
Suspends(n) == FALSE

Feet == {"left", "right"}

\* A mutation of ReportAllowed: the handlers do not check analysisComplete.
ReportAllowedAlways(dualFootAnalyzer) == TRUE

\* The guard of handleReportDownloadRequested and
\* handleQrGenerationRequested: this.analysisComplete.
ReportAllowed(dualFootAnalyzer) == dualFootAnalyzer.analysisComplete

\* createCombinedFootData(): the means of the two stored records and their
\* dimensions; a mean is an exact quotient.
createCombinedFootData(leftMeasurements, rightMeasurements) ==
  [length |-> Number(leftMeasurements.length + rightMeasurements.length, 2),
   width |-> Number(leftMeasurements.width + rightMeasurements.width, 2),
   height |-> Number(leftMeasurements.height + rightMeasurements.height, 2),
   unit |-> leftMeasurements.unit,
   confidence |-> "Dual Foot Analysis",
   leftFoot |-> [length |-> leftMeasurements.length,
                 width |-> leftMeasurements.width,
                 height |-> leftMeasurements.height],
   rightFoot |-> [length |-> rightMeasurements.length,
                  width |-> rightMeasurements.width,
                  height |-> rightMeasurements.height]]

\* The PLY files of a session: the scans of two different feet.
DualFiles ==
  {[name |-> "left.ply",
    geometry |-> BufferGeometry(PickVertices({1, 2, 3, 4}, 1000, "lying"))],
   [name |-> "right.ply",
    geometry |-> BufferGeometry(PickVertices({1, 2, 4}, 2000, "lying"))]}

\* handleFootFileSelected(foot, file) with a PLY file: the name is stored
\* and loadFootFile runs up to its await.
SelectFootFile ==
  \E foot \in Feet, file \in DualFiles :
    /\ loop.running = 0
    /\ loop.microtasks = << >>
    /\ loop.selected < MaxLoads
    /\ analyzer' = [analyzer EXCEPT !.footData[foot].fileName = file.name]
    /\ loop' = [loop EXCEPT
                  !.selected = @ + 1,
                  !.loads = @ \cup {[foot |-> foot, file |-> file,
                                     n |-> loop.selected + 1]}]
    /\ UNCHANGED <<footMeasurements, measurementLines, events, call, probe,
                   earlier, heap, flows, application>>

\* loadFootFile(foot, file) once the loader has delivered the geometry of a
\* load in flight.
LoadFootFile ==
  \E load \in loop.loads :
    /\ loop.running = 0
    /\ loop.microtasks = << >>
    /\ analyzer' = [analyzer EXCEPT
                      !.footData[load.foot].geometry = load.file.geometry,
                      !.footData[load.foot].isLoaded = TRUE]
    /\ loop' = [loop EXCEPT !.loads = @ \ {load}]
    /\ UNCHANGED <<footMeasurements, measurementLines, events, call, probe,
                   earlier, heap, flows, application>>

\* loadFootFile(foot, file) when the loader rejects: the catch block.
LoadFootFileFailed ==
  \E load \in loop.loads :
    /\ loop.running = 0
    /\ loop.microtasks = << >>
    /\ analyzer' = [analyzer EXCEPT !.footData[load.foot].isLoaded = FALSE]
    /\ loop' = [loop EXCEPT !.loads = @ \ {load}]
    /\ UNCHANGED <<footMeasurements, measurementLines, events, call, probe,
                   earlier, heap, flows, application>>

\* A click on the start button: handleDualFootAnalysisStarted up to its
\* first await, displayBothFeet() included.  With a foot not loaded the
\* handler only shows a message.
StartDualFootAnalysis ==
  \E id \in FlowIds :
    /\ flows[id].pc = "idle"
    /\ \A other \in FlowIds : other < id => flows[other].pc # "idle"
    /\ loop.running = 0
    /\ loop.microtasks = << >>
    /\ analyzer.footData.left.isLoaded
    /\ analyzer.footData.right.isLoaded
    /\ flows' = [flows EXCEPT ![id].pc = "displayed"]
    /\ loop' = [loop EXCEPT !.microtasks = Append(@, id)]
    /\ UNCHANGED <<footMeasurements, measurementLines, events, call, probe,
                   earlier, heap, analyzer, application>>

\* performDualFootMeasurement enters performPreciseMeasurements for the left
\* foot, then, resumed after the first await, for the right foot, with the
\* geometry footData holds at that moment.
BeginMeasurement ==
  \E id \in FlowIds :
    /\ loop.running = 0
    /\ Len(loop.microtasks) > 0
    /\ Head(loop.microtasks) = id
    /\ flows[id].pc \in {"displayed", "leftReturned"}
    /\ LET foot == IF flows[id].pc = "displayed" THEN "left" ELSE "right"
           run == RunOf(analyzer.footData[foot].geometry)
       IN  flows' = [flows EXCEPT ![id].pc = IF foot = "left"
                                              THEN "measuringLeft"
                                              ELSE "measuringRight",
                                  ![id][foot] = run,
                                  ![id].pos = 0]
    /\ loop' = [loop EXCEPT !.running = id, !.microtasks = Tail(@)]
    /\ events' = << >>
    /\ UNCHANGED <<footMeasurements, measurementLines, call, probe, earlier,
                   heap, analyzer, application>>

\* The foot a flow is measuring and the run of that call.
Measuring(id) == flows[id].pc \in {"measuringLeft", "measuringRight"}

FootOf(id) == IF flows[id].pc = "measuringLeft" THEN "left" ELSE "right"

\* The call dispatches its next notification; the listeners of the
\* application only log it.
Notify ==
  \E id \in FlowIds :
    /\ Measuring(id)
    /\ \/ loop.running = id
       \/ loop.running = 0 /\ flows[id].suspended /\ loop.microtasks = << >>
    /\ flows[id].pos < Len(flows[id][FootOf(id)].done.events)
    /\ LET n == flows[id].pos + 1
           event == flows[id][FootOf(id)].done.events[n]
       IN  /\ events' = Append(events, event)
           /\ loop' = [loop EXCEPT
                         !.log = Append(@, [flow |-> id, foot |-> FootOf(id),
                                            type |-> event.type]),
                         !.running = IF Suspends(n) THEN 0 ELSE id]
           /\ flows' = [flows EXCEPT ![id].pos = n,
                                     ![id].suspended = Suspends(n)]
    /\ UNCHANGED <<footMeasurements, measurementLines, call, probe, earlier,
                   heap, analyzer, application>>

\* The call returns: on the validated path the record is a new object
\* assigned to this.footMeasurements, on the fallback path a new object that
\* is only returned.  The caller's await queues its continuation.
ReturnMeasurement ==
  \E id \in FlowIds :
    /\ Measuring(id)
    /\ \/ loop.running = id
       \/ loop.running = 0 /\ flows[id].suspended /\ loop.microtasks = << >>
    /\ flows[id].pos = Len(flows[id][FootOf(id)].done.events)
    /\ LET done == flows[id][FootOf(id)].done
       IN  /\ heap' = Append(heap, done.result)
           /\ footMeasurements' = IF done.assigned THEN done.footMeasurements
                                  ELSE footMeasurements
    /\ flows' = [flows EXCEPT
                   ![id].pc = IF FootOf(id) = "left" THEN "leftReturned"
                              ELSE "rightReturned",
                   ![id].suspended = FALSE,
                   ![id].leftMeasurements =
                     IF FootOf(id) = "left" THEN Len(heap) + 1 ELSE @,
                   ![id].rightMeasurements =
                     IF FootOf(id) = "right" THEN Len(heap) + 1 ELSE @]
    /\ loop' = [loop EXCEPT !.running = 0, !.microtasks = Append(@, id)]
    /\ UNCHANGED <<measurementLines, events, call, probe, earlier, analyzer,
                   application>>

\* performDualFootMeasurement after the second await: both records are
\* stored in footData and handed to the UI.
StoreMeasurements ==
  \E id \in FlowIds :
    /\ loop.running = 0
    /\ Len(loop.microtasks) > 0
    /\ Head(loop.microtasks) = id
    /\ flows[id].pc = "rightReturned"
    /\ analyzer' = [analyzer EXCEPT
                      !.footData.left.measurements = flows[id].leftMeasurements,
                      !.footData.right.measurements =
                        flows[id].rightMeasurements]
    /\ flows' = [flows EXCEPT ![id].pc = "measured"]
    /\ loop' = [loop EXCEPT !.microtasks = Append(Tail(@), id)]
    /\ UNCHANGED <<footMeasurements, measurementLines, events, call, probe,
                   earlier, heap, application>>

\* handleDualFootAnalysisStarted after performDualFootMeasurement settled.
CompleteAnalysis ==
  \E id \in FlowIds :
    /\ loop.running = 0
    /\ Len(loop.microtasks) > 0
    /\ Head(loop.microtasks) = id
    /\ flows[id].pc = "measured"
    /\ analyzer' = [analyzer EXCEPT !.analysisComplete = TRUE]
    /\ flows' = [flows EXCEPT ![id].pc = "done"]
    /\ loop' = [loop EXCEPT !.microtasks = Tail(@)]
    /\ UNCHANGED <<footMeasurements, measurementLines, events, call, probe,
                   earlier, heap, application>>

\* The catch block of handleDualFootAnalysisStarted: displayBothFeet or,
\* after the records were stored, an update of the UI has thrown, and the
\* awaited promise rejects.  analysisComplete is not assigned.
CatchAnalysisError ==
  \E id \in FlowIds :
    /\ loop.running = 0
    /\ Len(loop.microtasks) > 0
    /\ Head(loop.microtasks) = id
    /\ flows[id].pc \in {"displayed", "measured"}
    /\ flows' = [flows EXCEPT ![id].pc = "failed"]
    /\ loop' = [loop EXCEPT !.microtasks = Tail(@)]
    /\ UNCHANGED <<footMeasurements, measurementLines, events, call, probe,
                   earlier, heap, analyzer, application>>

\* handleReportDownloadRequested: refused with a message unless
\* analysisComplete, else generateDualFootPDFReport with the stored
\* measurements and file names.
RequestReport ==
  /\ loop.running = 0
  /\ loop.microtasks = << >>
  /\ analyzer' =
       [analyzer EXCEPT
          !.requested =
            IF ~ReportAllowed(analyzer)
            THEN [kind |-> "refused"]
            ELSE [kind |-> "pdf",
                  leftMeasurements |-> analyzer.footData.left.measurements,
                  rightMeasurements |-> analyzer.footData.right.measurements,
                  leftFileName |-> analyzer.footData.left.fileName,
                  rightFileName |-> analyzer.footData.right.fileName]]
  /\ UNCHANGED <<footMeasurements, measurementLines, events, call, probe,
                 earlier, heap, flows, loop, application>>

\* handleQrGenerationRequested: refused with a message unless
\* analysisComplete, else generateQRCode with the combined data.
RequestQr ==
  /\ loop.running = 0
  /\ loop.microtasks = << >>
  /\ analyzer' =
       [analyzer EXCEPT
          !.requested =
            IF ~ReportAllowed(analyzer)
            THEN [kind |-> "refused"]
            ELSE IF \/ analyzer.footData.left.measurements = 0
                    \/ analyzer.footData.right.measurements = 0
            THEN \* leftMeasurements.length of null throws a TypeError
                 [kind |-> "threw"]
            ELSE [kind |-> "qr",
                  combinedData |->
                    createCombinedFootData(
                      heap[analyzer.footData.left.measurements],
                      heap[analyzer.footData.right.measurements])]]
  /\ UNCHANGED <<footMeasurements, measurementLines, events, call, probe,
                 earlier, heap, flows, loop, application>>

NextDual ==
  \/ SelectFootFile
  \/ LoadFootFile
  \/ LoadFootFileFailed
  \/ StartDualFootAnalysis
  \/ BeginMeasurement
  \/ Notify
  \/ ReturnMeasurement
  \/ StoreMeasurements
  \/ CompleteAnalysis
  \/ CatchAnalysisError
  \/ RequestReport
  \/ RequestQr

SpecDual == Init /\ [][NextDual]_vars

(***************************************************************************)
(* Properties.                                                              *)
(***************************************************************************)

\* The last engine call was a measurement.
Measured == call.op = "performPreciseMeasurements"

\* ... of a geometry that exposes a position attribute.
MeasuredBuffer == Measured /\ call.geometry.kind = "buffer"

\* The range of each dimension, in millimetres, as the validator states it.
LengthInRange(v) == v >= Mm(50) /\ v <= Mm(500)

WidthInRange(v) == v >= Mm(20) /\ v <= Mm(200)

HeightInRange(v) == v >= Mm(10) /\ v <= Mm(150)

EstimateInRange(e) ==
  LengthInRange(e.length) /\ WidthInRange(e.width) /\ HeightInRange(e.height)

\* The last notification of the call is the fallback's measurementComplete.
EndedInFallback ==
  /\ Len(events) > 0
  /\ events[Len(events)].type = "measurementComplete"
  /\ events[Len(events)].status = StatusFallback

\* The primary pass of the call failed: no vertex, an orientation that
\* throws, or estimates the validator rejects.
PrimaryFailed ==
  \/ Len(call.geometry.position) = 0
  \/ call.currentModel = "noRotation"
  \/ call.estimate.reached /\ ~EstimateInRange(call.estimate)

\* C1: a measurement of a geometry with a position attribute never rejects
\* and returns a record with numeric length, width and height; every failure
\* of the primary pass ends in the fallback, which always yields its record.
C1_NeverThrows ==
  MeasuredBuffer =>
    /\ call.outcome = "returned"
    /\ call.result.kind = "record"
    /\ call.result.length \in Int
    /\ call.result.width \in Int
    /\ call.result.height \in Int
    /\ PrimaryFailed =>
         /\ EndedInFallback
         /\ call.result.confidence = ConfidenceFallbackRecord
         /\ call.result = events[Len(events)].measurements

\* A validation failure and an orientation failure were both redirected.
C1_Witness ==
  /\ MeasuredBuffer
  /\ call.estimate.reached
  /\ ~EstimateInRange(call.estimate)
  /\ EndedInFallback
  /\ call.outcome = "returned"

\* C2 (as claimed): a call with no geometry, no position attribute or a
\* position attribute of zero vertices returns no record and dispatches
\* exactly one notification, a measurementStarted carrying the invalid-input
\* status.
C2_EmptyInputAborts ==
  (Measured /\ (call.geometry.kind # "buffer"
                \/ Len(call.geometry.position) = 0)) =>
    /\ call.result = Undefined
    /\ call.outcome # "rejected"
    /\ Len(events) = 1
    /\ events[1] = MeasurementStarted(StatusInvalid)

\* The fallback record of the geometry of the call, from the plain bounding
\* box of its position buffer.
FallbackLength ==
  LET size == GetSize(Box3FromPoints(call.geometry.position))
      m == IF Max2(size.x, Max2(size.y, size.z)) < Raw(1) THEN 10000 ELSE 10
  IN  Max2(size.z * m, Mm(50))

FallbackWidth ==
  LET size == GetSize(Box3FromPoints(call.geometry.position))
      m == IF Max2(size.x, Max2(size.y, size.z)) < Raw(1) THEN 10000 ELSE 10
  IN  Max2(size.x * m, Mm(30))

FallbackHeight ==
  LET size == GetSize(Box3FromPoints(call.geometry.position))
      m == IF Max2(size.x, Max2(size.y, size.z)) < Raw(1) THEN 10000 ELSE 10
  IN  Max2(size.y * m, Mm(20))

\* C3: no partial acceptance.  When one of the three scaled estimates is out
\* of range, length, width and height of the returned record are all the
\* fallback's and its confidence is the fallback label; when all three are in
\* range, the returned values are the three estimates.
C3_NoPartialAcceptance ==
  (MeasuredBuffer /\ call.estimate.reached) =>
    IF EstimateInRange(call.estimate)
    THEN /\ call.result.length = call.estimate.length
         /\ call.result.width = call.estimate.width
         /\ call.result.height = call.estimate.height
         /\ call.result.confidence # ConfidenceFallbackRecord
    ELSE /\ call.result.length = FallbackLength
         /\ call.result.width = FallbackWidth
         /\ call.result.height = FallbackHeight
         /\ call.result.confidence = ConfidenceFallbackRecord

\* Only the height estimate was out of range, and none of the three returned
\* values is an estimate.
C3_Witness ==
  /\ MeasuredBuffer
  /\ call.estimate.reached
  /\ LengthInRange(call.estimate.length)
  /\ WidthInRange(call.estimate.width)
  /\ ~HeightInRange(call.estimate.height)
  /\ call.result.length # call.estimate.length
  /\ call.result.width # call.estimate.width
  /\ call.result.confidence = ConfidenceFallbackRecord

\* C4: detectUnit maps d < 0.5 to 1000 (high), 0.5 <= d < 5 to 1000
\* (medium), 5 <= d < 50 to 10 (medium), 50 <= d <= 500 to 1 (high) and
\* d > 500 to 0.1 (low); the unit is "mm" and the multiplier positive.
C4_DetectUnitBands ==
  probe.op = "detectUnit" =>
    LET d == probe.maxDim
        r == probe.result
    IN  /\ r.unit = "mm"
        /\ r.multiplier > 0
        /\ d < 500 => r.multiplier = 10000 /\ r.confidence = ConfidenceHighMeter
        /\ (d >= 500 /\ d < 5000) =>
             r.multiplier = 10000 /\ r.confidence = ConfidenceMediumMeter
        /\ (d >= 5000 /\ d < 50000) =>
             r.multiplier = 100 /\ r.confidence = ConfidenceMediumCm
        /\ (d >= 50000 /\ d <= 500000) =>
             r.multiplier = 10 /\ r.confidence = ConfidenceHighMm
        /\ d > 500000 => r.multiplier = 1 /\ r.confidence = ConfidenceLowAbnormal

\* detectUnit(500): the closed end of the millimetre band.
C4_Witness ==
  /\ probe.op = "detectUnit"
  /\ probe.maxDim = 500000
  /\ probe.result.multiplier = 10
  /\ probe.result.confidence = ConfidenceHighMm

\* C5: validateMeasurements returns true exactly when 50 <= length <= 500,
\* 20 <= width <= 200 and 10 <= height <= 150, and a call of it leaves the
\* engine's fields as they were.
C5_ValidateRanges ==
  /\ [](probe.op = "validateMeasurements" =>
          (probe.result <=>
             /\ probe.length >= 500000 /\ probe.length <= 5000000
             /\ probe.width >= 200000 /\ probe.width <= 2000000
             /\ probe.height >= 100000 /\ probe.height <= 1500000))
  /\ [][probe'.op = "validateMeasurements" =>
          UNCHANGED <<footMeasurements, measurementLines>>]_vars

\* validate(50, 20, 10) is true on an engine that holds a record.
C5_Witness ==
  /\ probe.op = "validateMeasurements"
  /\ probe.length = 500000 /\ probe.width = 200000 /\ probe.height = 100000
  /\ probe.result
  /\ footMeasurements.kind = "record"

\* C6: every record of the fallback path has length >= 50, width >= 30 and
\* height >= 20.
C6_FallbackFloors ==
  (MeasuredBuffer /\ EndedInFallback) =>
    /\ call.result.length >= 500000
    /\ call.result.width >= 300000
    /\ call.result.height >= 200000
    /\ events[Len(events)].measurements.length >= 500000
    /\ events[Len(events)].measurements.width >= 300000
    /\ events[Len(events)].measurements.height >= 200000

\* A geometry whose vertices all coincide got exactly the floors.
C6_Witness ==
  /\ MeasuredBuffer
  /\ EndedInFallback
  /\ Len(call.geometry.position) = 1
  /\ call.result.length = 500000
  /\ call.result.width = 300000
  /\ call.result.height = 200000

\* C7 (as claimed): every returned record, validated or fallback, has each
\* dimension within its validator range.
C7_AllRecordsInRange ==
  (Measured /\ call.result.kind = "record") =>
    /\ LengthInRange(call.result.length)
    /\ WidthInRange(call.result.width)
    /\ HeightInRange(call.result.height)

\* C7 (amended): a validated record has each dimension within its validator
\* range; a fallback record has length >= 50, width >= 30 and height >= 20,
\* hence is non-negative and not below the validator minima, with no upper
\* limit.
C7_ValidatedInRangeFallbackFloored ==
  (Measured /\ call.result.kind = "record") =>
    IF EndedInFallback
    THEN /\ call.result.length >= Mm(50)
         /\ call.result.width >= Mm(30)
         /\ call.result.height >= Mm(20)
    ELSE /\ LengthInRange(call.result.length)
         /\ WidthInRange(call.result.width)
         /\ HeightInRange(call.result.height)

\* A fallback record longer than 500 mm was returned.
C7_Witness ==
  /\ Measured
  /\ call.result.kind = "record"
  /\ EndedInFallback
  /\ call.result.length > Mm(500)

\* C8 (as claimed): after a measurement call that returned a record,
\* getMeasurements() returns that record; after dispose() it returns the
\* empty record.
C8_StoredIsReturned ==
  probe.op = "getMeasurements" =>
    /\ (Measured /\ call.result.kind = "record") => probe.result = call.result
    /\ call.op = "dispose" => probe.result = EmptyRecord

\* Length, width, height, unit and confidence of two results agree.
SameResult(a, b) ==
  /\ a.kind = b.kind
  /\ a.kind = "record" =>
       /\ a.length = b.length
       /\ a.width = b.width
       /\ a.height = b.height
       /\ a.unit = b.unit
       /\ a.confidence = b.confidence

EventTypes == [i \in 1..Len(events) |-> events[i].type]

\* C10: a call that passes the input check dispatches measurementStarted,
\* then at most one measurementProgress, then one measurementComplete whose
\* measurements are the returned record; an aborted call dispatches neither
\* progress nor complete.
C10_NotificationOrder ==
  Measured =>
    IF call.geometry.kind = "buffer"
    THEN /\ EventTypes \in
              { << "measurementStarted", "measurementComplete" >>,
                << "measurementStarted", "measurementProgress",
                   "measurementComplete" >> }
         /\ events[Len(events)].measurements = call.result
         /\ call.result.kind = "record"
    ELSE /\ \A i \in 1..Len(events) : events[i].type = "measurementStarted"
         /\ call.result = Undefined

\* Started, progress and the fallback's complete, in this order.
C10_Witness ==
  /\ Measured
  /\ Len(events) = 3
  /\ events[2].type = "measurementProgress"
  /\ EndedInFallback

\* The last call was analyzeFootType.
Classified == probe.op = "analyzeFootType"

\* ... with three non-zero arguments.
ClassifiedNonZero ==
  Classified /\ probe.length # 0 /\ probe.width # 0 /\ probe.height # 0

\* p / q > num / den as a statement about integers: both sides multiplied by
\* den * q * q, which is positive.
RatioGreater(p, q, num, den) == den * p * q > num * q * q

RatioLess(p, q, num, den) == den * p * q < num * q * q

\* C11: for non-zero arguments the foot type is Long when length / width >
\* 2.6, Wide when it is < 2.2 and Normal otherwise, the arch type is High
\* when height / length > 0.25, Low when it is < 0.18 and Normal otherwise;
\* the four boundary ratios themselves are Normal, so analyzeFootType(260,
\* 100, h) is a Normal foot type and analyzeFootType(261, 100, h) a Long one.
C11_StrictThresholds ==
  ClassifiedNonZero =>
    /\ probe.result.footType =
         (IF RatioGreater(probe.length \div 1000, probe.width \div 1000, 26, 10)
          THEN "Long Foot Type"
          ELSE IF RatioLess(probe.length \div 1000, probe.width \div 1000, 22, 10)
          THEN "Wide Foot Type"
          ELSE "Normal Foot Type")
    /\ probe.result.archType =
         (IF RatioGreater(probe.height \div 1000, probe.length \div 1000, 25, 100)
          THEN "High Arch"
          ELSE IF RatioLess(probe.height \div 1000, probe.length \div 1000, 18, 100)
          THEN "Low Arch / Flat Foot"
          ELSE "Normal Arch")
    /\ (probe.length = Mm(260) /\ probe.width = Mm(100)) =>
         probe.result.footType = "Normal Foot Type"
    /\ (probe.length = Mm(261) /\ probe.width = Mm(100)) =>
         probe.result.footType = "Long Foot Type"
    /\ (probe.length = Mm(220) /\ probe.width = Mm(100)) =>
         probe.result.footType = "Normal Foot Type"
    /\ (probe.length = Mm(260) /\ probe.height = Mm(65)) =>
         probe.result.archType = "Normal Arch"
    /\ (probe.length = Mm(250) /\ probe.height = Mm(45)) =>
         probe.result.archType = "Normal Arch"

\* A length / width of exactly 2.6 with a height / length of exactly 0.25
\* was classified.
C11_Witness ==
  /\ ClassifiedNonZero
  /\ probe.length = Mm(260)
  /\ probe.width = Mm(100)
  /\ probe.height = Mm(65)
  /\ probe.result.footType = "Normal Foot Type"
  /\ probe.result.archType = "Normal Arch"

\* C12: analyzeFootType returns the sentinel, both types "Analysis Pending",
\* exactly when one of length, width and height is zero; with three non-zero
\* arguments it returns one of the three foot types and one of the three
\* arch types.
C12_SentinelOnZero ==
  Classified =>
    IF probe.length = 0 \/ probe.width = 0 \/ probe.height = 0
    THEN /\ probe.result.footType = "Analysis Pending"
         /\ probe.result.archType = "Analysis Pending"
    ELSE /\ probe.result.footType \in
              {"Long Foot Type", "Wide Foot Type", "Normal Foot Type"}
         /\ probe.result.archType \in
              {"High Arch", "Low Arch / Flat Foot", "Normal Arch"}

\* The sentinel was returned for a zero height alone.
C12_Witness ==
  /\ Classified
  /\ probe.length = Mm(260)
  /\ probe.width = Mm(100)
  /\ probe.height = 0
  /\ probe.result.footType = "Analysis Pending"
  /\ probe.result.archType = "Analysis Pending"

\* The last step compared a pair of records in both copies.
Compared == probe.op = "compare"

\* The smaller and the larger value of an axis, in whole millimetres.
AxisMin(axis) == (IF probe.left[axis] < probe.right[axis]
                  THEN probe.left[axis] ELSE probe.right[axis]) \div 10000

AxisMax(axis) == (IF probe.left[axis] < probe.right[axis]
                  THEN probe.right[axis] ELSE probe.left[axis]) \div 10000

Axes == {"length", "width", "height"}

\* No axis has a larger value of 0.
AllAxesPositive == \A axis \in Axes : AxisMax(axis) > 0

\* s is the symmetry (1 - diff / max) * 100 of the axis, max > 0:
\* s = 100 * min / max, since max - diff = min.
IsAxisSymmetry(s, axis) ==
  /\ s.kind = "number"
  /\ s.n * AxisMax(axis) = 100 * AxisMin(axis) * s.d

\* text is the difference of the axis with one decimal: its digits are the
\* difference in tenths of a millimetre.
IsAxisDiff(text, axis) == text = 10 * (AxisMax(axis) - AxisMin(axis))

\* k is the mean of the three axis symmetries rounded to the nearest
\* integer: k - 1/2 <= mean < k + 1/2, with mean = 100 * (a1/b1 + a2/b2 +
\* a3/b3) / 3, both sides multiplied by 6 * b1 * b2 * b3.
IsRoundedMean(k) ==
  LET a1 == AxisMin("length")
      b1 == AxisMax("length")
      a2 == AxisMin("width")
      b2 == AxisMax("width")
      a3 == AxisMin("height")
      b3 == AxisMax("height")
      sum == 200 * (a1 * b2 * b3 + a2 * b1 * b3 + a3 * b1 * b2)
  IN  /\ (2 * k - 1) * 3 * b1 * b2 * b3 <= sum
      /\ sum < (2 * k + 1) * 3 * b1 * b2 * b3

C14_ZeroMaxGuarded ==
  Compared =>
    /\ (AxisMax("length") = 0 =>
          /\ probe.report.lengthSymmetry = Number(0, 1)
          /\ probe.ui.lengthSymmetry = Number(0, 1))
    /\ (AxisMax("width") = 0 =>
          /\ probe.report.widthSymmetry = Number(0, 1)
          /\ probe.ui.widthSymmetry = Number(0, 1))
    /\ (AxisMax("height") = 0 =>
          /\ probe.report.heightSymmetry = Number(0, 1)
          /\ probe.ui.heightSymmetry = Number(0, 1))
    /\ probe.report.overallSymmetry.kind = "number"
    /\ probe.ui.symmetryScore.kind = "number"

\* The band of a report assessment and of a UI summary.
ReportBand(text) ==
  IF text = ReportExcellent THEN "excellent"
  ELSE IF text = ReportGood THEN "good"
  ELSE IF text = ReportModerate THEN "moderate"
  ELSE IF text = ReportSignificant THEN "significant"
  ELSE "none"

SummaryBand(text) ==
  IF text = SummaryExcellent THEN "excellent"
  ELSE IF text = SummaryGood THEN "good"
  ELSE IF text = SummaryModerate THEN "moderate"
  ELSE IF text = SummarySignificant THEN "significant"
  ELSE "none"

\* The band the score k belongs to.
BandOf(k) ==
  IF k >= 90 THEN "excellent"
  ELSE IF k >= 80 THEN "good"
  ELSE IF k >= 70 THEN "moderate"
  ELSE "significant"

\* C15: the assessment of the report and the summary of the UI depend on
\* the overall score alone: excellent from 90, good from 80 to 89, moderate
\* from 70 to 79, significant below 70; the two copies always put the same
\* pair of records in the same band.
C15_SeverityBands ==
  Compared =>
    /\ ReportBand(probe.report.symmetryEvaluation) =
         SummaryBand(probe.ui.comparisonSummary)
    /\ ReportBand(probe.report.symmetryEvaluation) # "none"
    /\ probe.report.overallSymmetry.kind = "number" =>
         /\ ReportBand(probe.report.symmetryEvaluation) =
              BandOf(probe.report.overallSymmetry.n)
         /\ SummaryBand(probe.ui.comparisonSummary) =
              BandOf(probe.ui.symmetryScore.n)

\* A pair with a score of exactly 80 was put in the good band by both
\* copies.
C15_Witness ==
  /\ Compared
  /\ probe.report.overallSymmetry = Number(80, 1)
  /\ probe.report.symmetryEvaluation = ReportGood
  /\ probe.ui.comparisonSummary = SummaryGood

\* C16 (as claimed): on the fallback path the confidence of the returned
\* record and the confidence carried by the measurementComplete
\* notification of the same call are one and the same low-confidence
\* fallback label.
C16_OneFallbackLabel ==
  (Measured /\ EndedInFallback) =>
    /\ call.result.kind = "record"
    /\ call.result.confidence = events[Len(events)].confidence
    /\ events[Len(events)].measurements.confidence =
         events[Len(events)].confidence

\* Two notifications of the log belong to the same measurement call.
SameCall(a, b) == a.flow = b.flow /\ a.foot = b.foot

\* C17: a measurement call runs from its first notification to its return
\* without any other measurement call on the engine running in between, so
\* the notifications of a call are contiguous in the order of dispatch; in
\* the dual-foot flow the left call has dispatched its measurementComplete
\* and returned before the right call starts, and the record the left call
\* returned, held by the caller, stays what it was when the right call
\* writes footMeasurements.
C17_CallsNeverInterleave ==
  /\ \A i \in 1..Len(loop.log), k \in 1..Len(loop.log) :
       (i < k /\ SameCall(loop.log[i], loop.log[k])) =>
         \A j \in i..k : SameCall(loop.log[i], loop.log[j])
  /\ \A id \in FlowIds :
       Measuring(id) =>
         /\ loop.running = id
         /\ \A other \in FlowIds : Measuring(other) => other = id
  /\ \A id \in FlowIds :
       (flows[id].pc = "measuringRight"
        \/ \E j \in 1..Len(loop.log) :
             loop.log[j].flow = id /\ loop.log[j].foot = "right") =>
         /\ flows[id].leftMeasurements # 0
         /\ \E i \in 1..Len(loop.log) :
              /\ loop.log[i] = [flow |-> id, foot |-> "left",
                                type |-> "measurementComplete"]
              /\ \A j \in 1..Len(loop.log) :
                   (loop.log[j].flow = id /\ loop.log[j].foot = "right") =>
                     i < j
  /\ \A id \in FlowIds :
       flows[id].leftMeasurements # 0 =>
         heap[flows[id].leftMeasurements] = flows[id].left.done.result

\* Both calls of a flow returned validated records of two different feet:
\* footMeasurements is the right record and the caller still holds the left
\* one.
C17_Witness ==
  \E id \in FlowIds :
    /\ flows[id].pc = "rightReturned"
    /\ flows[id].left.done.assigned
    /\ flows[id].right.done.assigned
    /\ footMeasurements = heap[flows[id].rightMeasurements]
    /\ heap[flows[id].leftMeasurements] # footMeasurements
    /\ heap[flows[id].leftMeasurements] = flows[id].left.done.result
    /\ Len(loop.log) >= 6

\* The last step measured a non-empty vertex list.
MeasuredLandmarks ==
  probe.op = "measureLandmarks" /\ Len(probe.vertices) > 0

\* The vertices measured, and their extent along each axis.
Measurees == Range(probe.vertices)

LowestY == SetMin({v.y : v \in Measurees})

HighestY == SetMax({v.y : v \in Measurees})

HeelZ == SetMin({v.z : v \in Measurees})

ToeZ == SetMax({v.z : v \in Measurees})

\* The vertices at or below minY + fraction% of the Y-range.
SoleSet(percent) ==
  {v \in Measurees :
     100 * (v.y - LowestY) <= percent * (HighestY - LowestY)}

\* The vertices whose z lies between from% and to% of the Z-range, bounds
\* included.
BandSet(from, to) ==
  {v \in Measurees :
     /\ 100 * (v.z - HeelZ) >= from * (ToeZ - HeelZ)
     /\ 100 * (v.z - HeelZ) <= to * (ToeZ - HeelZ)}

\* C18: for a non-empty vertex list measureFootLength is max z - min z over
\* the sole vertices, those with y <= minY + 0.15 * (maxY - minY); a vertex
\* above the threshold has no influence on it.  The sole set holds at least
\* the lowest vertex, so the Z-extent of the whole list is returned only
\* when it is also the Z-extent of the sole set.
C18_LengthOverSole ==
  MeasuredLandmarks =>
    /\ SoleSet(15) # {}
    /\ probe.length = SetMax({v.z : v \in SoleSet(15)})
                        - SetMin({v.z : v \in SoleSet(15)})
    /\ \A a \in Measurees, b \in Measurees :
         (a.z - b.z > probe.length) => (a \notin SoleSet(15) \/ b \notin SoleSet(15))

\* A vertex above the sole threshold overhangs the toe and a vertex exactly
\* on the threshold is the foremost sole vertex: the length is 60, not the
\* Z-extent 130.
C18_Witness ==
  /\ MeasuredLandmarks
  /\ Vector3(60, 16, 130) \in Measurees
  /\ Vector3(50, 15, 60) \in SoleSet(15)
  /\ HighestY - LowestY = 100
  /\ probe.length = 60
  /\ ToeZ - HeelZ = 130

\* C19: for a non-empty vertex list measureFootWidth is max x - min x over
\* the vertices with minZ + 0.60 * L <= z <= minZ + 0.75 * L and y <= minY +
\* 0.20 * (maxY - minY), and the X-extent of the whole list when no vertex
\* satisfies both.
C19_WidthOverBall ==
  MeasuredLandmarks =>
    LET ball == BandSet(60, 75) \cap SoleSet(20)
    IN  IF ball = {}
        THEN probe.width = SetMax({v.x : v \in Measurees})
                             - SetMin({v.x : v \in Measurees})
        ELSE probe.width = SetMax({v.x : v \in ball})
                             - SetMin({v.x : v \in ball})

\* The ball holds the vertex at 60 % of the length and the vertex at 75 %,
\* which is exactly at 20 % of the height: the width is 40, not the
\* X-extent 90.
C19_Witness ==
  /\ MeasuredLandmarks
  /\ Measurees = {Vector3(0, 0, 0), Vector3(10, 100, 100),
                  Vector3(50, 15, 60), Vector3(90, 20, 75)}
  /\ probe.width = 40

\* C20: for a non-empty vertex list measureFootHeight is the greatest y
\* among the vertices with minZ + 0.30 * L <= z <= minZ + 0.70 * L, whatever
\* their height, less the least y of all vertices, and maxY - minY when the
\* band holds no vertex.
C20_HeightOverInstep ==
  MeasuredLandmarks =>
    LET instep == BandSet(30, 70)
    IN  IF instep = {}
        THEN probe.height = HighestY - LowestY
        ELSE probe.height = SetMax({v.y : v \in instep}) - LowestY

\* The highest vertex lies just past the band (71 % of the length) and the
\* top of the band is the vertex at exactly 30 %: no height filter, and a
\* height of 50, not the Y-extent 80.
C20_Witness ==
  /\ MeasuredLandmarks
  /\ Measurees = {Vector3(0, 0, 0), Vector3(5, 0, 100), Vector3(40, 80, 71),
                  Vector3(70, 50, 50)}
  /\ probe.height = 50

\* The last step applied the three estimators to some vertex list.
AppliedEstimators == probe.op = "measureLandmarks"

\* C21: the estimators always return a number: for an empty vertex list the
\* Z-, X- and Y-extent of the bounding box they are given, and for a list
\* whose ball or instep band holds no vertex the extent of the whole list on
\* that axis.
C21_EstimatorsDegrade ==
  AppliedEstimators =>
    /\ probe.length \in Nat
    /\ probe.width \in Nat
    /\ probe.height \in Nat
    /\ Len(probe.vertices) = 0 =>
         /\ probe.length = (IF probe.bbox.empty THEN 0
                            ELSE probe.bbox.max.z - probe.bbox.min.z)
         /\ probe.width = (IF probe.bbox.empty THEN 0
                           ELSE probe.bbox.max.x - probe.bbox.min.x)
         /\ probe.height = (IF probe.bbox.empty THEN 0
                            ELSE probe.bbox.max.y - probe.bbox.min.y)
    /\ (Len(probe.vertices) > 0 /\ BandSet(60, 75) \cap SoleSet(20) = {}) =>
         probe.width = SetMax({v.x : v \in Measurees})
                         - SetMin({v.x : v \in Measurees})
    /\ (Len(probe.vertices) > 0 /\ BandSet(30, 70) = {}) =>
         probe.height = HighestY - LowestY

\* An empty vertex list was measured against a box 90 by 100 by 100.
C21_Witness ==
  /\ AppliedEstimators
  /\ Len(probe.vertices) = 0
  /\ probe.length = 100
  /\ probe.width = 90
  /\ probe.height = 100

\* The extent of the points of the position buffer of the call along an
\* axis, as stored, before any rotation: 0 for an empty buffer.
PlainExtent(axis) ==
  IF Len(call.geometry.position) = 0
  THEN 0
  ELSE SetMax({p[axis] : p \in Range(call.geometry.position)})
         - SetMin({p[axis] : p \in Range(call.geometry.position)})

\* The multiplier of the fallback, times 10: 1000 for a largest extent
\* below 1, else 1.
PlainMultiplier ==
  IF PlainExtent("x") < Raw(1) /\ PlainExtent("y") < Raw(1)
     /\ PlainExtent("z") < Raw(1)
  THEN 10000 ELSE 10

\* C22: a record of the fallback path has length = Z-extent * m, width =
\* X-extent * m and height = Y-extent * m, raised to the floors 50, 30 and
\* 20, where the extents are those of the geometry's own bounding box,
\* whatever the model's rotation and whatever the primary pass did, and m is
\* 1000 for a largest extent below 1 and 1 otherwise, not the multiplier of
\* detectUnit.
C22_FallbackFromPlainBox ==
  (MeasuredBuffer /\ EndedInFallback) =>
    /\ call.result.length = Max2(PlainExtent("z") * PlainMultiplier, Mm(50))
    /\ call.result.width = Max2(PlainExtent("x") * PlainMultiplier, Mm(30))
    /\ call.result.height = Max2(PlainExtent("y") * PlainMultiplier, Mm(20))
    /\ call.result.boundingBox = Box3FromPoints(call.geometry.position)

\* A standing scan more than 500 units high, laid down by the model's
\* rotation, failed validation: the fallback length is the Z-extent of the
\* scan as stored, times 1 where detectUnit had chosen 0.1, and not the
\* Z-extent of the rotated scan.
C22_Witness ==
  /\ MeasuredBuffer
  /\ EndedInFallback
  /\ call.currentModel = "rotXNeg90"
  /\ call.estimate.reached
  /\ PlainExtent("y") > Raw(500)
  /\ PlainExtent("z") < PlainExtent("y")
  /\ call.result.length = PlainExtent("z") * 10
  /\ call.result.length > Mm(50)

\* The call returned a validated record.
ReturnedValidated ==
  /\ MeasuredBuffer
  /\ call.outcome = "returned"
  /\ call.result.kind = "record"
  /\ ~EndedInFallback

\* C23: the originalVertices of a validated record are the points of the
\* position buffer, one per vertex and in the order of the buffer, turned by
\* the model's rotation ((x, y, z) becomes (x, z, -y)) when a model is given
\* and otherwise as stored; they are never multiplied by the unit
\* multiplier.  The originalVertices of a fallback record are empty.
C23_StoredVerticesUnscaled ==
  /\ ReturnedValidated =>
       /\ Len(call.result.originalVertices) = Len(call.geometry.position)
       /\ call.result.vertexCount = Len(call.geometry.position)
       /\ \A i \in 1..Len(call.geometry.position) :
            LET p == call.geometry.position[i]
                v == call.result.originalVertices[i]
            IN  IF call.currentModel = "rotXNeg90"
                THEN v.x = p.x /\ v.y = p.z /\ v.z = 0 - p.y
                ELSE v = p
       /\ footMeasurements.originalVertices = call.result.originalVertices
  /\ (MeasuredBuffer /\ EndedInFallback) =>
       call.result.originalVertices = << >>

\* A standing scan in metres was validated with the model's rotation: the
\* length is in millimetres, a thousand times the extent of the stored
\* vertices, which are the rotated points in the unit of the scan.
C23_Witness ==
  /\ ReturnedValidated
  /\ call.currentModel = "rotXNeg90"
  /\ Len(call.geometry.position) >= 3
  /\ call.result.originalVertices # call.geometry.position
  /\ call.result.length >= Mm(50)
  /\ \A i \in 1..Len(call.result.originalVertices) :
       /\ call.result.originalVertices[i].z < Raw(1)
       /\ call.result.originalVertices[i].z = 0 - call.geometry.position[i].y

\* The largest bounding-box dimension of the call's oriented vertices, as the
\* primary pass hands it to detectUnit.
PrimaryMaxDim ==
  LET oriented == [i \in 1..Len(call.geometry.position) |->
                     ApplyRotation(call.currentModel, call.geometry.position[i])]
      size == GetSize(Box3FromPoints(oriented))
  IN  Max2(size.x, Max2(size.y, size.z))

\* The primary pass of the call got as far as the unit detection.
ReachedDetectUnit ==
  /\ MeasuredBuffer
  /\ Len(call.geometry.position) > 0
  /\ call.currentModel # "noRotation"

\* C24: when the largest bounding-box dimension of the oriented vertices is
\* zero the call ends in the fallback and returns its low-confidence record,
\* never a validated one, and the multiplier of the primary pass is positive
\* in every call that reaches the unit detection.
C24_DegenerateFallsBack ==
  ReachedDetectUnit =>
    /\ detectUnit(PrimaryMaxDim).multiplier > 0
    /\ call.estimate.reached
    /\ PrimaryMaxDim <= 0 =>
         /\ PrimaryMaxDim = 0
         /\ call.estimate.length = 0
         /\ call.estimate.width = 0
         /\ call.estimate.height = 0
         /\ EndedInFallback
         /\ call.outcome = "returned"
         /\ call.result.confidence = ConfidenceFallbackRecord
         /\ call.result.originalVertices = << >>

\* A scan of one vertex under the model's rotation: the size is zero, the
\* three estimates are zero and the caller gets the floors of the fallback.
C24_Witness ==
  /\ ReachedDetectUnit
  /\ call.currentModel = "rotXNeg90"
  /\ Len(call.geometry.position) = 1
  /\ PrimaryMaxDim = 0
  /\ EndedInFallback
  /\ call.result.length = Mm(50)
  /\ call.result.width = Mm(30)
  /\ call.result.height = Mm(20)

\* Both compared records have three positive dimensions, as every record of
\* the engine has: validated ones are at least 50, 20 and 10 mm, fallback
\* ones at least 50, 30 and 20 mm.
BothRecordsPositive ==
  \A axis \in Axes : probe.left[axis] > 0 /\ probe.right[axis] > 0

\* 0 <= x <= 100 for a number x.
IsPercentage(x) == x.kind = "number" /\ x.n >= 0 /\ x.n <= 100 * x.d

\* C25: for two records whose dimensions are all positive, every axis
\* symmetry and the overall score lie between 0 and 100 inclusive, in the
\* report generator and in the comparison tab.
C25_SymmetryIsPercentage ==
  (Compared /\ BothRecordsPositive) =>
    /\ IsPercentage(probe.report.lengthSymmetry)
    /\ IsPercentage(probe.report.widthSymmetry)
    /\ IsPercentage(probe.report.heightSymmetry)
    /\ IsPercentage(probe.report.overallSymmetry)
    /\ IsPercentage(probe.ui.lengthSymmetry)
    /\ IsPercentage(probe.ui.widthSymmetry)
    /\ IsPercentage(probe.ui.heightSymmetry)
    /\ IsPercentage(probe.ui.symmetryScore)
    /\ probe.report.overallSymmetry.d = 1
    /\ probe.ui.symmetryScore.d = 1

\* A left foot far smaller than the right on every axis, 125/50/26 mm against
\* 250/100/65 mm: the height symmetry is 40 and the score 47, well inside
\* the range although the height difference exceeds the left height.
C25_Witness ==
  /\ Compared
  /\ BothRecordsPositive
  /\ probe.left = [length |-> Mm(125), width |-> Mm(50), height |-> Mm(26)]
  /\ probe.right = [length |-> Mm(250), width |-> Mm(100), height |-> Mm(65)]
  /\ probe.report.heightSymmetry = Number(40, 1)
  /\ probe.report.overallSymmetry = Number(47, 1)
  /\ probe.ui.symmetryScore = Number(47, 1)

\* C26: on a non-empty vertex list each landmark estimate is at least 0 and
\* at most the extent of the list on its axis (Z for the length, X for the
\* width, Y for the height), so that no estimate scaled by the detected
\* multiplier exceeds the largest bounding-box dimension times that
\* multiplier.
C26_EstimatesWithinExtent ==
  MeasuredLandmarks =>
    LET extentX == MaxX(probe.vertices) - MinX(probe.vertices)
        extentY == MaxY(probe.vertices) - MinY(probe.vertices)
        extentZ == MaxZ(probe.vertices) - MinZ(probe.vertices)
        size == GetSize(probe.bbox)
        maxDim == Max2(size.x, Max2(size.y, size.z))
        multiplier == detectUnit(maxDim).multiplier
    IN  /\ 0 <= probe.length /\ probe.length <= extentZ
        /\ 0 <= probe.width /\ probe.width <= extentX
        /\ 0 <= probe.height /\ probe.height <= extentY
        /\ size = Vector3(extentX, extentY, extentZ)
        /\ probe.length * multiplier <= maxDim * multiplier
        /\ probe.width * multiplier <= maxDim * multiplier
        /\ probe.height * multiplier <= maxDim * multiplier

\* Heel, a high far point, and two points of the ball on the sole: each
\* estimate is positive and strictly inside the extent of its axis, 60 of
\* 100 long, 40 of 90 wide and 15 of 100 high.
C26_Witness ==
  /\ MeasuredLandmarks
  /\ Len(probe.vertices) = 4
  /\ probe.length = 60
  /\ MaxZ(probe.vertices) - MinZ(probe.vertices) = 100
  /\ probe.width = 40
  /\ MaxX(probe.vertices) - MinX(probe.vertices) = 90
  /\ probe.height = 15
  /\ MaxY(probe.vertices) - MinY(probe.vertices) = 100

\* The last step classified one record with every copy.
ClassifiedRecord == probe.op = "classifyRecord"

\* The class a code of the compact payload names.
FootTypeOfCode(t) ==
  IF t = "L" THEN "Long Foot Type"
  ELSE IF t = "W" THEN "Wide Foot Type"
  ELSE "Normal Foot Type"

ArchTypeOfCode(a) ==
  IF a = "H" THEN "High Arch"
  ELSE IF a = "F" THEN "Low Arch / Flat Foot"
  ELSE "Normal Arch"

\* The three copies of the classifier return the same types.
CopiesAgree ==
  /\ probe.report.footType = probe.engine.footType
  /\ probe.report.archType = probe.engine.archType
  /\ probe.dual.footType = probe.engine.footType
  /\ probe.dual.archType = probe.engine.archType

\* C27: for every (length, width, height) the engine's analyzeFootType, the
\* report generator's getFootTypeAnalysis and the dual analyzer's
\* analyzeFootType return the same footType and archType, and whenever the
\* compact payload carries a foot-type code t and an arch code a they name
\* the classes the classifier returns for the same record.
C27_ClassifierCopiesAgree ==
  ClassifiedRecord =>
    /\ CopiesAgree
    /\ (probe.compact.t # NoCode /\ probe.compact.a # NoCode) =>
         /\ probe.compact.t \in {"L", "W", "N"}
         /\ probe.compact.a \in {"H", "F", "N"}
         /\ FootTypeOfCode(probe.compact.t) = probe.engine.footType
         /\ ArchTypeOfCode(probe.compact.a) = probe.engine.archType

\* The single-foot application has settled: a file was selected, no load is
\* in flight and no timer is set.
SingleSettled ==
  /\ application.selected > 0
  /\ application.loads = {}
  /\ application.timers200 = << >>
  /\ application.timers300 = << >>

\* The file whose name the application holds.
CurrentFile ==
  CHOOSE file \in SingleFiles : file.name = application.currentFileName

\* C28: once all loads and timers of the single-foot application have
\* settled, the measurements and the analysis it holds and shows were
\* computed from the file named by currentFileName, the file selected last,
\* whatever the order in which overlapping loads completed.
C28_LastSelectedFileMeasured ==
  SingleSettled =>
    LET done == SingleRunOf(CurrentFile.geometry).done
    IN  /\ application.measurements = done.result
        /\ application.ui.measurements = done.result
        /\ application.analysis =
             analyzeFootType(done.result.length, done.result.width,
                             done.result.height)
        /\ application.ui.reportFileName = application.currentFileName

\* The loads of a foot have settled: a file was selected for it and none of
\* its loads is in flight.
LoadsSettled(foot) ==
  /\ analyzer.footData[foot].fileName # ""
  /\ \A load \in loop.loads : load.foot # foot

\* The file a foot's fileName names.
FileNamed(foot) ==
  CHOOSE file \in DualFiles : file.name = analyzer.footData[foot].fileName

\* C29: whenever analysisComplete is true each foot's stored measurements
\* is a record computed from the geometry now stored for that foot, also
\* after a new file was selected and loaded for a foot; and once the loads of
\* a foot have settled its stored geometry is that of the file its fileName
\* names.
C29_MeasurementsMatchGeometry ==
  /\ analyzer.analysisComplete =>
       \A foot \in Feet :
         /\ analyzer.footData[foot].measurements # 0
         /\ heap[analyzer.footData[foot].measurements] =
              RunOf(analyzer.footData[foot].geometry).done.result
  /\ \A foot \in Feet :
       LoadsSettled(foot) =>
         analyzer.footData[foot].geometry = FileNamed(foot).geometry

\* Both feet are loaded.
BothLoaded ==
  analyzer.footData.left.isLoaded /\ analyzer.footData.right.isLoaded

\* A PDF report or a QR code was generated by the last request.
Generated == analyzer.requested.kind \in {"pdf", "qr"}

====
